---------------------------- MODULE Spec2Model ----------------------------
(***************************************************************************)
(* Expression-node model of the Verilator middle-end (V3AstNodeMath.h).    *)
(*                                                                         *)
(* Nodes live in an arena indexed 1..MaxNodes; a pointer to a node is its  *)
(* index and NULL is nullptr.  Declarations, enum items and C functions    *)
(* (the targets of non-owning references) are entities 1..MaxEntities.     *)
(* The specifications share the variables:                                 *)
(*   Spec          construction, setters, cloneType and same               *)
(*   SpecQuery     construction and the purity / optimizability queries    *)
(*   SpecRelink    cloneTree followed by cloneRelink over reference nodes  *)
(*   SpecFold      numberOperate and the bottom-up constant-folding pass   *)
(*   SpecHooks     the per-kind hooks a generic pass calls                 *)
(*   SpecEval      numberOperate on nodes with differing children          *)
(*   SpecBroken    broken() on reference nodes                             *)
(*   SpecConst     the constructors of AstConst                            *)
(*   SpecLifecycle a node taken through width, folding and emission        *)
(*   SpecValid     uses of back-references around the relink walk          *)
(*   SpecOwn       ownership of operands by constructors                   *)
(*   SpecClean     masking of operands in the host-grammar text            *)
(*   SpecPayload   same() of the kinds that compare members                *)
(*   SpecPure      the side-effect flag of AstLogOr                        *)
(*   SpecRand      AstRand::combinable                                     *)
(*   SpecSel       the fold and msbConst() of AstSel                       *)
(*   SpecDecl      declared widths of AstConcat and AstReplicate           *)
(***************************************************************************)
EXTENDS Integers, Sequences, FiniteSets, TLC

VARIABLES
    nodes,    \* arena: node index -> node record, or NoNode
    ents,     \* entities that exist (AstVar / AstEnumItem / AstCFunc)
    clonep,   \* AstNode::clonep() of each entity: its clone, or NULL
    cloneOf,  \* for a node made by cloneType or cloneTree, the node it came from
    ret       \* the last operation and what it returned

vars == <<nodes, ents, clonep, cloneOf, ret>>

---------------------------------------------------------------------------
(* Bounds                                                                  *)

MaxConstWidth == 1   \* width of the literals used as node payload
MaxNodes == 5        \* arena size
MaxEntities == 3     \* declarations, including clones of declarations
MaxWidth == 4        \* operand width of the folded arithmetic
MaxTreeWidth == 2    \* operand width of the folded two-level trees

NULL == 0
\* same() relates two nodes: the receiver and its argument.
SameArity == 2

FileLines == {"t.v:1", "t.v:2"}
NodeIds == 1..MaxNodes
Entities == 1..MaxEntities
Texts == {"%d", "%s"}
Names == {"a", "b"}
Dotteds == {"", "top"}
Accesses == {"READ", "WRITE"}
Timeunits == {"1ns", "1ps"}
FmtTypes == {"ATOI", "ATOHEX", "ATOOCT", "ATOBIN", "ATOREAL"}

---------------------------------------------------------------------------
(* The catalogue of concrete kinds, by base class and by override.         *)

\* Concrete kinds derived from AstNodeBiop.
NodeBiopKinds ==
    { "Add", "AddD", "And", "ArraySel", "AssocSel", "Atan2D", "BufIf1",
      "CastDynamic", "CompareNN", "Concat", "ConcatN", "Div", "DivD", "DivS",
      "Eq", "EqCase", "EqD", "EqN", "EqWild", "FGetS", "FUngetC", "GetcN",
      "GetcRefN", "Gt", "GtD", "GtN", "GtS", "Gte", "GteD", "GteN", "GteS",
      "HypotD", "LogAnd", "LogEq", "LogIf", "LogOr", "Lt", "LtD", "LtN",
      "LtS", "Lte", "LteD", "LteN", "LteS", "ModDiv", "ModDivS", "Mul",
      "MulD", "MulS", "Neq", "NeqCase", "NeqD", "NeqN", "NeqWild", "Or",
      "Pow", "PowD", "PowSS", "PowSU", "PowUS", "Replicate", "ReplicateN",
      "ShiftL", "ShiftR", "ShiftRS", "StreamL", "StreamR", "Sub", "SubD",
      "URandomRange", "WildcardSel", "WordSel", "Xor" }

\* Concrete kinds derived from AstNodeUniop.
NodeUniopKinds ==
    { "AcosD", "AcoshD", "AsinD", "AsinhD", "AtanD", "AtanhD", "AtoN",
      "BitsToRealD", "CCast", "CLog2", "CeilD", "CosD", "CoshD", "CountOnes",
      "CvtPackString", "ExpD", "Extend", "ExtendS", "FEof", "FGetC",
      "FloorD", "ISToRD", "IToRD", "IsUnbounded", "IsUnknown", "LenN",
      "Log10D", "LogD", "LogNot", "Negate", "NegateD", "Not", "NullCheck",
      "OneHot", "OneHot0", "RToIRoundS", "RToIS", "RealToBits", "RedAnd",
      "RedOr", "RedXor", "Signed", "SinD", "SinhD", "SqrtD", "TanD", "TanhD",
      "TimeImport", "ToLowerN", "ToUpperN", "Unsigned" }

\* Concrete kinds derived from AstNodeTriop.
NodeTriopKinds ==
    { "Cond", "CondBound", "PostAdd", "PostSub", "PreAdd", "PreSub", "PutcN",
      "Sel", "SliceSel", "SubstrN" }

\* Concrete kinds derived from AstNodeQuadop.
NodeQuadopKinds ==
    { "CountBits" }

\* Concrete kinds derived from AstNodeTermop.
NodeTermopKinds ==
    { "Time", "TimeD" }

\* Concrete kinds derived from AstNodeVarRef.
NodeVarRefKinds ==
    { "VarRef", "VarXRef" }

\* Concrete kinds derived from AstNodeBiCom.
NodeBiComKinds ==
    { "Add", "AddD", "And", "Eq", "EqCase", "EqD", "EqN", "LogEq", "Mul",
      "MulD", "MulS", "Neq", "NeqCase", "NeqD", "NeqN", "Or", "Xor" }

\* Concrete kinds derived from AstNodeBiComAsv.
NodeBiComAsvKinds ==
    { "Add", "AddD", "And", "Mul", "MulD", "MulS", "Or", "Xor" }

\* Concrete kinds derived from AstNodeSel.
NodeSelKinds ==
    { "ArraySel", "AssocSel", "WildcardSel", "WordSel" }

\* Concrete kinds derived from AstNodeStream.
NodeStreamKinds ==
    { "StreamL", "StreamR" }

\* Concrete kinds derived from AstNodeSystemBiop.
NodeSystemBiopKinds ==
    { "Atan2D", "HypotD" }

\* Concrete kinds derived from AstNodeCond.
NodeCondKinds ==
    { "Cond", "CondBound" }

\* Concrete kinds derived from AstNodeSystemUniop.
NodeSystemUniopKinds ==
    { "AcosD", "AcoshD", "AsinD", "AsinhD", "AtanD", "AtanhD", "CeilD",
      "CosD", "CoshD", "ExpD", "FloorD", "Log10D", "LogD", "SinD", "SinhD",
      "SqrtD", "TanD", "TanhD" }

\* Concrete kinds derived directly from AstNodeMath.
NodeMathDirectKinds ==
    { "AddrOfCFunc", "CMath", "ConsAssoc", "ConsDynArray", "ConsQueue",
      "ConsWildcard", "Const", "EmptyQueue", "EnumItemRef", "ExprStmt",
      "FError", "FRead", "FRewind", "FScanF", "FSeek", "FTell", "Fell",
      "GatePin", "Implication", "Inside", "InsideRange", "LambdaArgRef",
      "MemberSel", "NewCopy", "NewDynamic", "Past", "PatMember", "Pattern",
      "Rand", "Rose", "SScanF", "Sampled", "ScopeName", "SetAssoc",
      "SetWildcard", "Stable", "SystemF", "TestPlusArgs", "UCFunc",
      "Unbounded", "ValuePlusArgs" }

\* Kinds whose isPure() override returns false.
IsPureFalseKinds ==
    { "FEof", "FError", "FGetC", "FRead", "FRewind", "FScanF", "FSeek",
      "FTell", "FUngetC", "SScanF", "SystemF", "UCFunc" }

\* Kinds whose isGateOptimizable() override returns false.
IsGateOptimizableFalseKinds ==
    { "FRead", "FRewind", "FScanF", "FSeek", "FTell", "Rand", "SScanF",
      "SystemF", "TestPlusArgs", "Time", "TimeD", "UCFunc", "URandomRange",
      "ValuePlusArgs" }

\* Kinds whose isPredictOptimizable() override returns false.
IsPredictOptimizableFalseKinds ==
    { "AssocSel", "FRead", "FRewind", "FScanF", "FSeek", "FTell", "Rand",
      "SScanF", "SystemF", "TestPlusArgs", "Time", "TimeD", "UCFunc",
      "URandomRange", "ValuePlusArgs", "WildcardSel" }

\* Kinds whose numberOperate is the fatal V3ERROR_NA stub.
NumberOperateNAKinds ==
    { "ArraySel", "AssocSel", "CastDynamic", "CvtPackString", "FEof",
      "FGetC", "FGetS", "FUngetC", "GetcRefN", "NullCheck", "PostAdd",
      "PostSub", "PreAdd", "PreSub", "SliceSel", "TimeImport",
      "URandomRange", "WildcardSel", "WordSel" }

\* Kinds whose constructor body calls dtypeSetBit().
DTypeSetBitKinds ==
    { "Eq", "EqCase", "EqD", "EqN", "EqWild", "Gt", "GtD", "GtN", "GtS",
      "Gte", "GteD", "GteN", "GteS", "Inside", "IsUnbounded", "IsUnknown",
      "LogAnd", "LogEq", "LogIf", "LogNot", "LogOr", "Lt", "LtD", "LtN",
      "LtS", "Lte", "LteD", "LteN", "LteS", "Neq", "NeqCase", "NeqD", "NeqN",
      "NeqWild", "OneHot", "OneHot0", "RedAnd", "RedOr", "RedXor" }

\* Kinds whose constructor body calls dtypeSetDouble().
DTypeSetDoubleKinds ==
    { "AddD", "BitsToRealD", "DivD", "ISToRD", "IToRD", "MulD", "NegateD",
      "PowD", "SubD", "TimeD" }

\* Kinds whose constructor body calls dtypeSetString().
DTypeSetStringKinds ==
    { "ConcatN", "CvtPackString", "PutcN", "ReplicateN", "SubstrN",
      "ToLowerN", "ToUpperN" }

\* Kinds whose constructor body calls dtypeSetUInt32().
DTypeSetUInt32Kinds ==
    { "CompareNN", "URandomRange", "WordSel" }

\* Kinds whose constructor body calls dtypeSetSigned32().
DTypeSetSigned32Kinds ==
    { "CLog2", "LenN", "RToIRoundS", "RToIS", "Unbounded" }

\* Kinds whose constructor body calls dtypeSetUInt64().
DTypeSetUInt64Kinds ==
    { "RealToBits", "ScopeName", "Time" }

\* Kinds whose constructor body calls dtypeFrom(lhsp).
DTypeFromLhsKinds ==
    { "Add", "And", "BufIf1", "Div", "DivS", "ModDiv", "ModDivS", "Mul",
      "MulS", "Negate", "Not", "NullCheck", "Or", "Pow", "PowSS", "PowSU",
      "PowUS", "Sub", "Xor" }

\* Kinds whose constructor body calls dtypeSetBitSized(8, VSigning::UNSIGNED).
DTypeSetBitSized8Kinds ==
    { "GetcN", "GetcRefN" }

\* Direct AstNodeMath kinds whose constructor fills operand slot 1.
MathCtorOp1Kinds ==
    { "CMath", "ConsAssoc", "ConsDynArray", "ConsQueue", "ConsWildcard",
      "ExprStmt", "FError", "FRead", "FRewind", "FScanF", "FSeek", "FTell",
      "Fell", "GatePin", "Implication", "Inside", "InsideRange", "MemberSel",
      "NewCopy", "NewDynamic", "Past", "PatMember", "Rand", "Rose", "SScanF",
      "Sampled", "SetAssoc", "SetWildcard", "Stable", "SystemF",
      "TestPlusArgs", "UCFunc", "ValuePlusArgs" }

\* Direct AstNodeMath kinds whose constructor fills operand slot 2.
MathCtorOp2Kinds ==
    { "ConsDynArray", "ConsQueue", "ExprStmt", "FError", "FRead", "FScanF",
      "FSeek", "GatePin", "Implication", "Inside", "InsideRange",
      "NewDynamic", "Past", "PatMember", "Pattern", "SScanF", "SetAssoc",
      "SetWildcard", "ValuePlusArgs" }

\* Direct AstNodeMath kinds whose constructor fills operand slot 3.
MathCtorOp3Kinds ==
    { "FRead", "FSeek", "PatMember", "SetAssoc", "SetWildcard" }

\* Direct AstNodeMath kinds whose constructor fills operand slot 4.
MathCtorOp4Kinds ==
    { "FRead" }

\* Kinds whose renderer for grammar g raises the fatal V3ERROR_NA.
EmitNAKinds(g) ==
    CASE g = "emitVerilog" ->
          { "AddrOfCFunc", "CMath", "Const", "EnumItemRef", "ExprStmt",
            "FRead", "FRewind", "FScanF", "FSeek", "FTell", "Implication",
            "MemberSel", "Past", "Pattern", "SScanF", "Sel", "SliceSel",
            "UCFunc", "VarRef", "VarXRef" }
      [] g = "emitC" ->
          { "AddD", "AddrOfCFunc", "AtoN", "BufIf1", "CMath", "ConsAssoc",
            "ConsDynArray", "ConsQueue", "ConsWildcard", "Const", "DivD",
            "EmptyQueue", "EnumItemRef", "EqD", "EqN", "ExprStmt", "FError",
            "FRead", "FRewind", "FScanF", "FSeek", "FTell", "Fell", "GatePin",
            "GetcRefN", "GtD", "GtN", "GteD", "GteN", "Implication", "Inside",
            "InsideRange", "IsUnbounded", "IsUnknown", "LambdaArgRef", "LtD",
            "LtN", "LteD", "LteN", "MemberSel", "MulD", "NegateD", "NeqD",
            "NeqN", "NewCopy", "NewDynamic", "NullCheck", "Past", "PatMember",
            "Pattern", "PostAdd", "PostSub", "PreAdd", "PreSub", "Rose",
            "SScanF", "Sampled", "ScopeName", "SetAssoc", "SetWildcard",
            "Signed", "SliceSel", "Stable", "SubD", "Time", "TimeD",
            "TimeImport", "UCFunc", "Unbounded", "Unsigned", "ValuePlusArgs",
            "VarRef", "VarXRef" }

\* Kinds whose renderer for grammar g returns the empty string.
EmitEmptyKinds(g) ==
    CASE g = "emitVerilog" ->
          { "ScopeName" }
      [] g = "emitC" ->
          { "CountBits" }

\* Kinds whose cleanOut() raises the fatal V3ERROR_NA.
CleanOutNAKinds ==
    { "And", "BufIf1", "Fell", "Implication", "Or", "Past", "PatMember",
      "Pattern", "Rose", "Sampled", "Stable" }

\* Kinds whose cleanOut() returns true.
CleanOutTrueKinds ==
    { "AcosD", "AcoshD", "AddD", "AddrOfCFunc", "ArraySel", "AsinD", "AsinhD",
      "AssocSel", "AtanD", "AtanhD", "AtoN", "CCast", "CastDynamic", "CeilD",
      "CompareNN", "Concat", "ConcatN", "ConsAssoc", "ConsDynArray",
      "ConsQueue", "ConsWildcard", "Const", "CosD", "CoshD", "CvtPackString",
      "DivD", "EmptyQueue", "EnumItemRef", "Eq", "EqCase", "EqD", "EqN",
      "EqWild", "ExpD", "Extend", "FEof", "FError", "FloorD", "GatePin",
      "GetcN", "GetcRefN", "Gt", "GtD", "GtN", "GtS", "Gte", "GteD", "GteN",
      "GteS", "LambdaArgRef", "LenN", "Log10D", "LogAnd", "LogD", "LogEq",
      "LogIf", "LogNot", "LogOr", "Lt", "LtD", "LtN", "LtS", "Lte", "LteD",
      "LteN", "LteS", "MulD", "NegateD", "Neq", "NeqCase", "NeqD", "NeqN",
      "NeqWild", "NewCopy", "NewDynamic", "NullCheck", "OneHot", "OneHot0",
      "PutcN", "RedAnd", "RedOr", "ScopeName", "SetAssoc", "SetWildcard",
      "SinD", "SinhD", "SqrtD", "StreamL", "SubD", "SubstrN", "SystemF",
      "TanD", "TanhD", "TestPlusArgs", "Time", "TimeD", "ToLowerN",
      "ToUpperN", "URandomRange", "Unbounded", "ValuePlusArgs", "VarRef",
      "VarXRef", "WildcardSel", "WordSel" }

\* Kinds whose operand-slot query q returns true.
SlotFactTrueKinds(q) ==
    CASE q = "cleanLhs" ->
          { "AtoN", "CCast", "CLog2", "CastDynamic", "CompareNN", "Concat",
            "ConcatN", "Cond", "CondBound", "CountBits", "CountOnes",
            "CvtPackString", "Div", "DivS", "Eq", "EqCase", "EqWild",
            "Extend", "ExtendS", "FEof", "FError", "FGetC", "FGetS",
            "FUngetC", "GetcN", "GetcRefN", "Gt", "GtS", "Gte", "GteS",
            "ISToRD", "IToRD", "LenN", "LogAnd", "LogEq", "LogIf", "LogNot",
            "LogOr", "Lt", "LtS", "Lte", "LteS", "ModDiv", "ModDivS", "Mul",
            "MulS", "Neq", "NeqCase", "NeqWild", "NullCheck", "OneHot",
            "OneHot0", "Pow", "PowSS", "PowSU", "PowUS", "PutcN", "RedAnd",
            "RedOr", "Replicate", "ReplicateN", "Sel", "ShiftR", "ShiftRS",
            "StreamL", "SubstrN", "ToLowerN", "ToUpperN", "URandomRange",
            "WordSel" }
      [] q = "cleanRhs" ->
          { "ArraySel", "AssocSel", "CastDynamic", "CompareNN", "Concat",
            "ConcatN", "CountBits", "Div", "DivS", "Eq", "EqCase", "EqWild",
            "FGetS", "FUngetC", "GetcN", "GetcRefN", "Gt", "GtS", "Gte",
            "GteS", "LogAnd", "LogEq", "LogIf", "LogOr", "Lt", "LtS", "Lte",
            "LteS", "ModDiv", "ModDivS", "Mul", "MulS", "Neq", "NeqCase",
            "NeqWild", "Pow", "PowSS", "PowSU", "PowUS", "PutcN", "Replicate",
            "ReplicateN", "Sel", "ShiftL", "ShiftR", "ShiftRS", "SliceSel",
            "StreamL", "SubstrN", "URandomRange", "WildcardSel", "WordSel" }
      [] q = "cleanThs" ->
          { "CountBits", "PutcN", "Sel", "SliceSel", "SubstrN" }
      [] q = "cleanFhs" ->
          { "CountBits" }
      [] q = "sizeMattersLhs" ->
          { "Add", "Div", "DivS", "ModDiv", "ModDivS", "Mul", "MulD", "MulS",
            "Negate", "Not", "PostAdd", "PostSub", "Pow", "PowSS", "PowSU",
            "PowUS", "PreAdd", "PreSub", "ShiftL", "Signed", "StreamL",
            "StreamR", "Sub", "Unsigned" }
      [] q = "sizeMattersRhs" ->
          { "Add", "Div", "DivS", "ModDiv", "ModDivS", "Mul", "MulD", "MulS",
            "PostAdd", "PostSub", "PreAdd", "PreSub", "Sub" }
      [] q = "sizeMattersThs" ->
          { "PostAdd", "PostSub", "PreAdd", "PreSub" }
      [] q = "sizeMattersFhs" ->
          {}

\* Kinds whose flavor query f returns true.
FlavorTrueKinds(f) ==
    CASE f = "doubleFlavor" ->
          { "AcosD", "AcoshD", "AddD", "AsinD", "AsinhD", "Atan2D", "AtanD",
            "AtanhD", "CeilD", "CosD", "CoshD", "DivD", "EqD", "ExpD",
            "FloorD", "GtD", "GteD", "HypotD", "Log10D", "LogD", "LtD",
            "LteD", "MulD", "NegateD", "NeqD", "PowD", "SinD", "SinhD",
            "SqrtD", "SubD", "TanD", "TanhD" }
      [] f = "signedFlavor" ->
          { "DivS", "ExtendS", "GtS", "GteS", "LtS", "LteS", "ModDivS",
            "MulS", "PowSS", "PowSU", "PowUS", "ShiftRS" }
      [] f = "stringFlavor" ->
          { "ConcatN", "EqN", "GtN", "GteN", "LtN", "LteN", "NeqN",
            "ReplicateN" }

ConcreteKinds ==
    NodeMathDirectKinds \cup NodeBiopKinds \cup NodeUniopKinds
        \cup NodeTriopKinds \cup NodeQuadopKinds \cup NodeTermopKinds
        \cup NodeVarRefKinds

ShiftKinds == {"ShiftL", "ShiftR", "ShiftRS"}
ExtendKinds == {"Extend", "ExtendS"}
ScanFKinds == {"FScanF", "SScanF"}
TimeunitKinds == {"Time", "TimeD"}

\* Kinds that hold a non-owning reference to an entity.
RefKinds == {"VarRef", "VarXRef", "EnumItemRef", "AddrOfCFunc", "MemberSel"}

---------------------------------------------------------------------------
(* Data types (AstNodeDType handles) and constant values (V3Number).       *)

NoDType == [k |-> "null", width |-> 0, isSigned |-> FALSE]
dtypeSetLogicSized(w, s) == [k |-> "logic", width |-> w, isSigned |-> s]
dtypeSetBit == dtypeSetLogicSized(1, FALSE)
dtypeSetBitSized8 == [k |-> "bit", width |-> 8, isSigned |-> FALSE]
dtypeSetUInt32 == dtypeSetLogicSized(32, FALSE)
dtypeSetSigned32 == dtypeSetLogicSized(32, TRUE)
dtypeSetUInt64 == dtypeSetLogicSized(64, FALSE)
dtypeSetDouble == [k |-> "double", width |-> 64, isSigned |-> TRUE]
dtypeSetString == [k |-> "string", width |-> 0, isSigned |-> FALSE]
findCHandleDType == [k |-> "chandle", width |-> 64, isSigned |-> FALSE]
\* The data type every declaration of the model carries.
EntityDType == dtypeSetLogicSized(MaxConstWidth, FALSE)

\* A sized two-state number: V3Number(nodep, width, value).  A number is
\* unsigned until isSigned(true) is called on it.
V3Number(w, v) ==
    [k |-> "logic", width |-> w, value |-> v % (2 ^ w), valueX |-> 0,
     str |-> "", sized |-> TRUE, isSigned |-> FALSE]
\* A four-state number: bit i is X or Z where bit i of valueX is set.
V3NumberX(w, v, x) ==
    [k |-> "logic", width |-> w, value |-> v % (2 ^ w),
     valueX |-> x % (2 ^ w), str |-> "", sized |-> TRUE,
     isSigned |-> FALSE]
V3NumberDouble(d) ==
    [k |-> "double", width |-> 64, value |-> d, valueX |-> 0, str |-> "",
     sized |-> TRUE, isSigned |-> FALSE]
V3NumberString(s) ==
    [k |-> "string", width |-> 0, value |-> 0, valueX |-> 0, str |-> s,
     sized |-> TRUE, isSigned |-> FALSE]

isDouble(num) == num.k = "double"
isString(num) == num.k = "string"
isFourState(num) == num.valueX # 0
toUInt(num) == num.value

\* V3Number::isCaseEq: equal bit for bit, X and Z compared literally.
isCaseEq(a, b) ==
    IF isString(a) \/ isString(b) THEN a.k = b.k /\ a.str = b.str
    ELSE IF isDouble(a) \/ isDouble(b) THEN a.k = b.k /\ a.value = b.value
    ELSE a.width = b.width /\ a.value = b.value /\ a.valueX = b.valueX

\* The literals a constant node is built from.
ConstNums ==
    { V3NumberX(w, v, x) :
        w \in 1..MaxConstWidth, v \in 0..1, x \in 0..1 }
    \cup { V3NumberDouble(0), V3NumberString("%d") }

---------------------------------------------------------------------------
(* Nodes.                                                                  *)

NoMembers == [none |-> TRUE]
NoArgs == [none |-> TRUE]
NoNode ==
    [type |-> "none", fileline |-> "", op1p |-> NULL, op2p |-> NULL,
     op3p |-> NULL, op4p |-> NULL, dtypep |-> NoDType, m |-> NoMembers]

\* AstNode{t, fl}: no children, no data type yet.
AstNode(t, fl) ==
    [type |-> t, fileline |-> fl, op1p |-> NULL, op2p |-> NULL,
     op3p |-> NULL, op4p |-> NULL, dtypep |-> NoDType, m |-> NoMembers]

\* What is left at the address of a node after delete.
Deleted == [NoNode EXCEPT !.type = "deleted"]

\* Addresses handed out so far, and the nodes among them not yet deleted.
Allocated == { i \in NodeIds : nodes[i].type # "none" }
Live == { i \in Allocated : nodes[i].type # "deleted" }
NumAllocated == Cardinality(Allocated)
\* The address operator new hands out next; no address is handed out twice.
Alloc ==
    CHOOSE i \in NodeIds \ Allocated : \A j \in NodeIds \ Allocated : i <= j

\* AstNode::dtypeFrom(fromp) applied to a node whose data type is dt.
dtypeFrom(fromp, dt) == IF fromp # NULL THEN nodes[fromp].dtypep ELSE dt
\* dtypeFrom applied with a declaration (AstVar, AstEnumItem) as source.
dtypeFromEntity(e, dt) == IF e # NULL THEN EntityDType ELSE dt
\* AstNode::width(): the width of the data type, 0 when there is none.
width(n) == n.dtypep.width

\* AstVar::name(): the declarations of the model all carry one name (they
\* sit in different scopes), which a clone of a declaration keeps.
EntityName(e) == "a"

\* The arguments, other than the operands, a constructor can be given.
CtorArgs(kind) ==
    CASE kind = "Const" -> { [num |-> n] : n \in ConstNums }
      [] kind = "CompareNN" -> { [ignoreCase |-> b] : b \in BOOLEAN }
      [] kind \in ShiftKinds -> { [setwidth |-> w] : w \in 0..MaxConstWidth }
      [] kind = "CCast" -> { [setwidth |-> w] : w \in 0..MaxConstWidth }
      [] kind \in ExtendKinds -> { [width |-> w] : w \in 0..MaxConstWidth }
      [] kind \in ScanFKinds -> { [text |-> t] : t \in Texts }
      [] kind = "ScopeName" -> { [forFormat |-> b] : b \in BOOLEAN }
      [] kind = "EnumItemRef" -> { [itemp |-> e] : e \in ents }
      [] kind = "AddrOfCFunc" -> { [funcp |-> e] : e \in ents \cup {NULL} }
      [] kind = "VarRef" ->
            { [name |-> s, varp |-> NULL, access |-> a] :
                s \in Names, a \in Accesses }
            \cup { [name |-> EntityName(e), varp |-> e, access |-> a] :
                     e \in ents, a \in Accesses }
      [] kind = "VarXRef" ->
            { [name |-> s, varp |-> NULL, access |-> "READ", dotted |-> d] :
                s \in Names, d \in Dotteds }
            \cup { [name |-> EntityName(e), varp |-> e, access |-> "READ",
                     dotted |-> d] : e \in ents, d \in Dotteds }
      [] kind = "MemberSel" -> { [name |-> s] : s \in Names }
      [] kind = "LambdaArgRef" ->
            { [name |-> s, index |-> b] : s \in Names, b \in BOOLEAN }
      [] kind = "Rand" ->
            { [reset |-> TRUE, resetv |-> b, seeded |-> FALSE,
               urandom |-> FALSE] : b \in BOOLEAN }
            \cup { [reset |-> FALSE, resetv |-> FALSE, seeded |-> s,
                    urandom |-> u] : s \in BOOLEAN, u \in BOOLEAN }
      [] kind = "AtoN" -> { [fmt |-> f] : f \in FmtTypes }
      [] kind \in TimeunitKinds -> { [timeunit |-> t] : t \in Timeunits }
      [] OTHER -> { NoArgs }

---------------------------------------------------------------------------
(* Host integers.  A 32-bit word is kept as two 16-bit halves, so that     *)
(* uint32_t and int arithmetic has the width it has in the source.         *)

Half == 65536
INT_MAX == 2147483647
\* The 32-bit word hi * 2^16 + lo.
Word(hi, lo) == [hi |-> hi, lo |-> lo]
Zero == Word(0, 0)
One == Word(0, 1)

\* a + b on 32-bit words, with the carry out of bit 31.
addCarry(a, b) ==
    LET lo == a.lo + b.lo
        hi == a.hi + b.hi + lo \div Half
    IN [carry |-> hi \div Half, word |-> Word(hi % Half, lo % Half)]
\* uint32_t a + b and a - b: modulo 2^32.
addU(a, b) == addCarry(a, b).word
subU(a, b) == addU(addU(a, Word(Half - 1 - b.hi, Half - 1 - b.lo)), One)
\* x * y modulo 2^16, for 16-bit x and y.
mulHalf(x, y) == (((x * (y \div 256)) % 256) * 256 + x * (y % 256)) % Half
\* uint32_t a * b: modulo 2^32, from the partial products of the halves.
mulU(a, b) ==
    LET q == a.lo * (b.lo \div 256)
        p == a.lo * (b.lo % 256)
        low == addU(Word(q \div 256, (q % 256) * 256),
                    Word(p \div Half, p % Half))
        cross == mulHalf(a.hi, b.lo) + mulHalf(a.lo, b.hi)
    IN Word((low.hi + cross) % Half, low.lo)
\* a <= b as uint32_t.
leqU(a, b) == a.hi < b.hi \/ (a.hi = b.hi /\ a.lo <= b.lo)
\* The sign of a word read as int.
isNeg(a) == a.hi >= Half \div 2

\* The conversions between an int and the 32-bit word that holds it.
ToWord(x) == Word((x \div Half) % Half, x % Half)
FromWord(w) == (IF isNeg(w) THEN w.hi - Half ELSE w.hi) * Half + w.lo

\* int width * uint32_t count, as the constructors compute it: the product
\* modulo 2^32, handed on as an int.
mulU32(a, b) == FromWord(mulU(ToWord(a), ToWord(b)))

\* The member fields a constructor initialises, per kind.
Members(kind, args) ==
    CASE kind = "Const" -> [m_num |-> args.num]
      [] kind = "CompareNN" -> [m_ignoreCase |-> args.ignoreCase]
      [] kind = "LogOr" -> [m_sideEffect |-> FALSE]
      [] kind = "CCast" -> [m_size |-> args.setwidth]
      [] kind \in ScanFKinds -> [m_text |-> args.text]
      [] kind = "ScopeName" ->
            [m_dpiExport |-> FALSE, m_forFormat |-> args.forFormat]
      [] kind = "EnumItemRef" ->
            [m_itemp |-> args.itemp, m_classOrPackagep |-> NULL]
      [] kind = "AddrOfCFunc" -> [m_funcp |-> args.funcp]
      [] kind = "VarRef" ->
            [m_access |-> args.access, m_varp |-> args.varp,
             m_varScopep |-> NULL, m_classOrPackagep |-> NULL,
             m_name |-> args.name, m_selfPointer |-> ""]
      [] kind = "VarXRef" ->
            [m_access |-> args.access, m_varp |-> args.varp,
             m_varScopep |-> NULL, m_classOrPackagep |-> NULL,
             m_name |-> args.name, m_selfPointer |-> "",
             m_dotted |-> args.dotted, m_inlinedDots |-> ""]
      [] kind = "MemberSel" -> [m_name |-> args.name, m_varp |-> NULL]
      [] kind = "LambdaArgRef" ->
            [m_name |-> args.name, m_index |-> args.index]
      [] kind = "Rand" ->
            [m_urandom |-> args.urandom, m_reset |-> args.resetv]
      [] kind = "CMath" -> [m_cleanOut |-> TRUE, m_pure |-> FALSE]
      [] kind = "PatMember" -> [m_default |-> FALSE]
      [] kind = "AtoN" -> [m_fmt |-> args.fmt]
      [] kind \in TimeunitKinds -> [m_timeunit |-> args.timeunit]
      [] kind = "TimeImport" -> [m_timeunit |-> "none"]
      [] kind = "Sel" -> [m_declRange |-> "invalid", m_declElWidth |-> 1]
      [] kind = "SliceSel" -> [m_declRange |-> "invalid"]
      [] OTHER -> NoMembers

\* AstConst::initWithNumber: the data type follows the number.
initWithNumber(num) ==
    IF isDouble(num) THEN dtypeSetDouble
    ELSE IF isString(num) THEN dtypeSetString
    ELSE dtypeSetLogicSized(num.width, num.isSigned)

\* True when operand p is a literal node (VN_IS(p, Const)).
IsConst(p) == p # NULL /\ nodes[p].type = "Const"

\* The data type a node has when its constructor returns.  ops are the
\* operand pointers handed to the constructor.
ctorDType(kind, ops, args) ==
    LET base == IF kind \in NodeUniopKinds THEN dtypeFrom(ops[1], NoDType)
                ELSE NoDType
    IN
    CASE kind = "Const" -> initWithNumber(args.num)
      [] kind \in DTypeSetBitKinds -> dtypeSetBit
      [] kind \in DTypeSetDoubleKinds -> dtypeSetDouble
      [] kind \in DTypeSetStringKinds -> dtypeSetString
      [] kind \in DTypeSetUInt32Kinds -> dtypeSetUInt32
      [] kind \in DTypeSetSigned32Kinds -> dtypeSetSigned32
      [] kind \in DTypeSetUInt64Kinds -> dtypeSetUInt64
      [] kind \in DTypeSetBitSized8Kinds -> dtypeSetBitSized8
      [] kind \in DTypeFromLhsKinds -> dtypeFrom(ops[1], base)
      [] kind \in NodeSystemUniopKinds \cup NodeSystemBiopKinds ->
            dtypeSetDouble
      [] kind \in NodeStreamKinds ->
            IF ops[1] # NULL /\ nodes[ops[1]].dtypep # NoDType
            THEN dtypeSetLogicSized(nodes[ops[1]].dtypep.width, FALSE)
            ELSE NoDType
      [] kind \in NodeCondKinds ->
            IF ops[2] # NULL THEN dtypeFrom(ops[2], NoDType)
            ELSE dtypeFrom(ops[3], NoDType)
      [] kind \in NodeVarRefKinds -> dtypeFromEntity(args.varp, NoDType)
      [] kind = "EnumItemRef" -> dtypeFromEntity(args.itemp, NoDType)
      [] kind = "AddrOfCFunc" -> findCHandleDType
      [] kind = "Rand" -> IF args.reset THEN EntityDType ELSE NoDType
      [] kind \in {"CMath", "NewCopy"} -> dtypeFrom(ops[1], NoDType)
      [] kind \in {"ExprStmt", "NewDynamic"} -> dtypeFrom(ops[2], NoDType)
      [] kind = "Concat" ->
            IF nodes[ops[1]].dtypep # NoDType /\ nodes[ops[2]].dtypep # NoDType
            THEN dtypeSetLogicSized(nodes[ops[1]].dtypep.width
                                    + nodes[ops[2]].dtypep.width, FALSE)
            ELSE NoDType
      [] kind = "Replicate" ->
            IF ops[1] # NULL /\ IsConst(ops[2])
            THEN dtypeSetLogicSized(mulU32(width(nodes[ops[1]]),
                                           toUInt(nodes[ops[2]].m.m_num)),
                                    FALSE)
            ELSE NoDType
      [] kind \in ShiftKinds ->
            IF args.setwidth # 0
            THEN dtypeSetLogicSized(args.setwidth, kind = "ShiftRS")
            ELSE NoDType
      [] kind = "Sel" ->
            IF IsConst(ops[3])
            THEN dtypeSetLogicSized(toUInt(nodes[ops[3]].m.m_num), FALSE)
            ELSE NoDType
      [] kind = "CCast" ->
            IF args.setwidth # 0
            THEN dtypeSetLogicSized(args.setwidth, FALSE)
            ELSE base
      [] kind \in ExtendKinds ->
            IF args.width # 0 THEN dtypeSetLogicSized(args.width, FALSE)
            ELSE base
      [] kind = "AtoN" ->
            IF args.fmt = "ATOREAL" THEN dtypeSetDouble ELSE dtypeSetSigned32
      [] OTHER -> base

\* True when the constructor of a kind stores an operand in slot i.
FillsSlot(kind, i) ==
    \/ kind \in NodeQuadopKinds
    \/ kind \in NodeTriopKinds /\ i <= 3
    \/ kind \in NodeBiopKinds /\ i <= 2
    \/ kind \in NodeUniopKinds /\ i = 1
    \/ kind \in MathCtorOp1Kinds /\ i = 1
    \/ kind \in MathCtorOp2Kinds /\ i = 2
    \/ kind \in MathCtorOp3Kinds /\ i = 3
    \/ kind \in MathCtorOp4Kinds /\ i = 4

\* new Ast<kind>(fl, operands..., arguments...); ops[i] is the pointer the
\* caller passes for operand slot i.
New(kind, fl, ops, args) ==
    [type |-> kind, fileline |-> fl,
     op1p |-> IF FillsSlot(kind, 1) THEN ops[1] ELSE NULL,
     op2p |-> IF FillsSlot(kind, 2) THEN ops[2] ELSE NULL,
     op3p |-> IF FillsSlot(kind, 3) THEN ops[3] ELSE NULL,
     op4p |-> IF FillsSlot(kind, 4) THEN ops[4] ELSE NULL,
     dtypep |-> ctorDType(kind, ops, args),
     m |-> Members(kind, args)]

---------------------------------------------------------------------------
(* same(): node-local structural equality.  The caller has already         *)
(* established that both nodes have the same type; children are compared   *)
(* separately.                                                             *)

\* Kinds that declare no same() anywhere along their base classes.
NoSameKinds ==
    { "AddrOfCFunc", "GatePin", "Inside", "InsideRange", "PatMember",
      "Pattern", "Unbounded" }

\* AstNode::same, the default a kind inherits when it declares none.
AstNode_same(a, b) == TRUE
\* AstNodeBiop/Uniop/Triop/Quadop::same and the 'return true' overrides.
AstNodeMath_same(a, b) == TRUE

\* Fault variant of AstConst::same: logical equality (==), which is not
\* true when either number holds an X or Z bit.
AstConst_same_opEq(a, b) ==
    /\ ~isFourState(a.m.m_num) /\ ~isFourState(b.m.m_num)
    /\ isCaseEq(a.m.m_num, b.m.m_num)
AstConst_same(a, b) == isCaseEq(a.m.m_num, b.m.m_num)
AstEnumItemRef_same(a, b) == a.m.m_itemp = b.m.m_itemp
AstFScanF_same(a, b) == a.m.m_text = b.m.m_text
AstSScanF_same(a, b) == a.m.m_text = b.m.m_text
AstScopeName_same(a, b) ==
    a.m.m_dpiExport = b.m.m_dpiExport /\ a.m.m_forFormat = b.m.m_forFormat
AstLogOr_same(a, b) == a.m.m_sideEffect = b.m.m_sideEffect
AstCCast_same(a, b) == a.m.m_size = b.m.m_size
AstNullCheck_same(a, b) == a.fileline = b.fileline
\* Fault variant of AstVarXRef::same: the dotted path left out.
AstVarXRef_same_noDotted(a, b) ==
    /\ a.m.m_selfPointer = b.m.m_selfPointer
    /\ a.m.m_varp = b.m.m_varp
    /\ a.m.m_name = b.m.m_name
AstVarXRef_same(a, b) ==
    /\ a.m.m_selfPointer = b.m.m_selfPointer
    /\ a.m.m_varp = b.m.m_varp
    /\ a.m.m_name = b.m.m_name
    /\ a.m.m_dotted = b.m.m_dotted
\* AstVarRef::same is declared here and defined out of line.
AstVarRef_same(a, b) ==
    /\ a.m.m_varScopep = b.m.m_varScopep
    /\ a.m.m_varp = b.m.m_varp
    /\ a.m.m_selfPointer = b.m.m_selfPointer
    /\ a.m.m_access = b.m.m_access

same(a, b) ==
    CASE a.type = "Const" -> AstConst_same(a, b)
      [] a.type = "EnumItemRef" -> AstEnumItemRef_same(a, b)
      [] a.type = "FScanF" -> AstFScanF_same(a, b)
      [] a.type = "SScanF" -> AstSScanF_same(a, b)
      [] a.type = "ScopeName" -> AstScopeName_same(a, b)
      [] a.type = "LogOr" -> AstLogOr_same(a, b)
      [] a.type = "CCast" -> AstCCast_same(a, b)
      [] a.type = "NullCheck" -> AstNullCheck_same(a, b)
      [] a.type = "VarXRef" -> AstVarXRef_same(a, b)
      [] a.type = "VarRef" -> AstVarRef_same(a, b)
      [] a.type \in NoSameKinds -> AstNode_same(a, b)
      [] OTHER -> AstNodeMath_same(a, b)

---------------------------------------------------------------------------
(* cloneType(): rebuild a node of the same concrete kind over new operands.*)

AstCompareNN_cloneType(n, lhsp, rhsp) ==
    New("CompareNN", n.fileline, <<lhsp, rhsp, NULL, NULL>>,
        [ignoreCase |-> n.m.m_ignoreCase])
\* Fault variant of AstLogOr::cloneType: the side-effect flag carried over.
AstLogOr_cloneType_keepFlag(n, lhsp, rhsp) ==
    [New("LogOr", n.fileline, <<lhsp, rhsp, NULL, NULL>>, NoArgs) EXCEPT
       !.m.m_sideEffect = n.m.m_sideEffect]
\* AstLogOr::cloneType: new AstLogOr(this->fileline(), lhsp, rhsp).
AstLogOr_cloneType(n, lhsp, rhsp) ==
    New("LogOr", n.fileline, <<lhsp, rhsp, NULL, NULL>>, NoArgs)
\* The shifts rebuild with the default setwidth = 0.
AstShift_cloneType(n, lhsp, rhsp) ==
    New(n.type, n.fileline, <<lhsp, rhsp, NULL, NULL>>, [setwidth |-> 0])
\* Fault variant of cloneType: the operands handed over in canonical order,
\* lower address first.
AstNodeBiop_cloneType_sorted(n, lhsp, rhsp) ==
    New(n.type, n.fileline,
        IF lhsp <= rhsp THEN <<lhsp, rhsp, NULL, NULL>>
        ELSE <<rhsp, lhsp, NULL, NULL>>, NoArgs)
\* Every other binary kind: new Ast<kind>(this->fileline(), lhsp, rhsp).
AstNodeBiop_cloneType(n, lhsp, rhsp) ==
    New(n.type, n.fileline, <<lhsp, rhsp, NULL, NULL>>, NoArgs)

cloneType(n, lhsp, rhsp) ==
    CASE n.type = "CompareNN" -> AstCompareNN_cloneType(n, lhsp, rhsp)
      [] n.type = "LogOr" -> AstLogOr_cloneType(n, lhsp, rhsp)
      [] n.type \in ShiftKinds -> AstShift_cloneType(n, lhsp, rhsp)
      [] OTHER -> AstNodeBiop_cloneType(n, lhsp, rhsp)

---------------------------------------------------------------------------
(* Purity and optimizability.                                              *)

\* AstNode::isPure / isGateOptimizable / isPredictOptimizable: what a kind
\* reports when it overrides nothing.
AstNode_isPure == TRUE
AstNode_isGateOptimizable == TRUE
AstNode_isPredictOptimizable == TRUE

isPure(n) ==
    CASE n.type \in IsPureFalseKinds -> FALSE
      [] n.type = "LogOr" -> ~n.m.m_sideEffect
      [] n.type = "ValuePlusArgs" -> n.op2p = NULL
      [] n.type = "CastDynamic" -> TRUE
      [] OTHER -> AstNode_isPure

isGateOptimizable(n) ==
    CASE n.type \in IsGateOptimizableFalseKinds -> FALSE
      [] n.type = "CMath" -> n.m.m_pure
      [] n.type \in {"ArraySel", "AssocSel", "WildcardSel"} -> TRUE
      [] OTHER -> AstNode_isGateOptimizable

isPredictOptimizable(n) ==
    CASE n.type \in IsPredictOptimizableFalseKinds -> FALSE
      [] n.type = "CMath" -> n.m.m_pure
      [] n.type = "ArraySel" -> TRUE
      [] OTHER -> AstNode_isPredictOptimizable

\* AstNodeMath::isOpaque.
isOpaque(n) == n.type = "CvtPackString"

\* Kinds that declare numberOperate (every unary, binary, ternary and
\* quaternary kind), and those among them whose body computes a value.
NumberOperateKinds ==
    NodeUniopKinds \cup NodeBiopKinds \cup NodeTriopKinds \cup NodeQuadopKinds
hasNumberOperate(n) ==
    n.type \in NumberOperateKinds /\ n.type \notin NumberOperateNAKinds

---------------------------------------------------------------------------
(* Spec: construction, setters, cloneType, same and the per-kind queries.  *)

NoRet == [op |-> "none", a |-> NULL, b |-> NULL, c |-> NULL, val |-> FALSE]

\* The two operand leaves every built node is given.
Operands == {1, 2}
\* Hand-built nodes: live, not an operand leaf, not made by cloneType.
Built == { i \in Live : i \notin Operands /\ cloneOf[i] = NULL }

\* The operand pointers a caller passes to the constructor of a kind.
CtorOps(kind, args) ==
    IF kind = "Rand" /\ ~args.seeded THEN <<NULL, NULL, NULL, NULL>>
    ELSE <<1, 2, 1, 2>>

Init ==
    /\ nodes = [i \in NodeIds |->
                  IF i = 1
                  THEN New("Const", "t.v:1", <<NULL, NULL, NULL, NULL>>,
                           [num |-> V3Number(1, 1)])
                  ELSE IF i = 2
                  THEN New("Const", "t.v:1", <<NULL, NULL, NULL, NULL>>,
                           [num |-> V3Number(1, 0)])
                  ELSE NoNode]
    /\ ents = {1, 2}
    /\ clonep = [e \in Entities |-> NULL]
    /\ cloneOf = [i \in NodeIds |-> NULL]
    /\ ret = NoRet

\* The kinds the next hand-built node may have.  A node and one counterpart
\* are built over the operand leaves; the counterpart has the kind of the
\* first node, so that the two can be handed to same().
BuildableKinds ==
    IF Cardinality(Built) >= SameArity \/ NumAllocated >= MaxNodes THEN {}
    ELSE IF Built = {} THEN ConcreteKinds
    ELSE { nodes[i].type : i \in Built }

\* new Ast<kind>(fl, operands..., args...).
Construct(kind, fl, args) ==
    /\ kind \in BuildableKinds
    /\ nodes' = [nodes EXCEPT ![Alloc] = New(kind, fl, CtorOps(kind, args), args)]
    /\ ret' = [op |-> "new", a |-> Alloc, b |-> NULL, c |-> NULL,
               val |-> FALSE]
    /\ UNCHANGED <<ents, clonep, cloneOf>>

\* AstLogOr::sideEffect(bool flag).
sideEffect(i, flag) ==
    /\ i \in Live
    /\ nodes[i].type = "LogOr"
    /\ nodes' = [nodes EXCEPT ![i].m.m_sideEffect = flag]
    /\ ret' = [op |-> "sideEffect", a |-> i, b |-> NULL, c |-> NULL,
               val |-> flag]
    /\ UNCHANGED <<ents, clonep, cloneOf>>

\* AstScopeName::dpiExport(bool flag).
dpiExport(i, flag) ==
    /\ i \in Live
    /\ nodes[i].type = "ScopeName"
    /\ nodes' = [nodes EXCEPT ![i].m.m_dpiExport = flag]
    /\ ret' = [op |-> "dpiExport", a |-> i, b |-> NULL, c |-> NULL,
               val |-> flag]
    /\ UNCHANGED <<ents, clonep, cloneOf>>

\* m = n->cloneType(lhsp, rhsp) on a binary node n.
CloneType(i, lhsp, rhsp) ==
    /\ i \in Built
    /\ nodes[i].type \in NodeBiopKinds
    /\ NumAllocated < MaxNodes
    /\ nodes' = [nodes EXCEPT ![Alloc] = cloneType(nodes[i], lhsp, rhsp)]
    /\ cloneOf' = [cloneOf EXCEPT ![Alloc] = i]
    /\ ret' = [op |-> "cloneType", a |-> i, b |-> Alloc, c |-> NULL,
               val |-> FALSE]
    /\ UNCHANGED <<ents, clonep>>

\* a->same(b); callers compare the types first.
Same(i, j) ==
    /\ i \in Live \ Operands /\ j \in Live \ Operands
    /\ nodes[i].type = nodes[j].type
    /\ ret' = [op |-> "same", a |-> i, b |-> j, c |-> NULL,
               val |-> same(nodes[i], nodes[j])]
    /\ UNCHANGED <<nodes, ents, clonep, cloneOf>>

Next ==
    \/ \E kind \in BuildableKinds, fl \in FileLines :
         \E args \in CtorArgs(kind) : Construct(kind, fl, args)
    \/ \E i \in NodeIds, flag \in BOOLEAN : sideEffect(i, flag)
    \/ \E i \in NodeIds, flag \in BOOLEAN : dpiExport(i, flag)
    \/ \E i \in NodeIds, l \in Operands :
         \E r \in Operands \ {l} : CloneType(i, l, r)
    \/ \E i \in NodeIds, j \in NodeIds : Same(i, j)

Spec == Init /\ [][Next]_vars

---------------------------------------------------------------------------
(* Properties of cloneType and same, checked under Spec.                   *)

\* Every field of a node except its source location.
SemanticFields(n) ==
    [type |-> n.type, op1p |-> n.op1p, op2p |-> n.op2p, op3p |-> n.op3p,
     op4p |-> n.op4p, dtypep |-> n.dtypep, m |-> n.m]

\* C1: after m = n.cloneType(a, b) on a binary node n, m has the kind of n
\* and same(m, r) is true for every hand-built node r of that kind with
\* operands (a, b) and the node-local payload of n.
C1_CloneTypeSameAsHandBuilt ==
    ret.op = "cloneType" =>
        /\ nodes[ret.b].type = nodes[ret.a].type
        /\ \A r \in Built :
             ( /\ nodes[r].type = nodes[ret.a].type
               /\ nodes[r].m = nodes[ret.a].m
               /\ nodes[r].op1p = nodes[ret.b].op1p
               /\ nodes[r].op2p = nodes[ret.b].op2p )
             => same(nodes[ret.b], nodes[r])

\* C2: same() between a CompareNN built with ignoreCase = true and one
\* built with ignoreCase = false returns false, whichever is the receiver.
C2_CompareNNIgnoreCaseDistinguished ==
    ( /\ ret.op = "same"
      /\ nodes[ret.a].type = "CompareNN"
      /\ nodes[ret.a].m.m_ignoreCase # nodes[ret.b].m.m_ignoreCase )
    => ret.val = FALSE

\* C3: same(n, n) returns true for a node of any concrete kind, whatever
\* its payload.
C3_SameReflexive ==
    (ret.op = "same" /\ ret.a = ret.b) => ret.val = TRUE

\* C3 witness: same(n, n) has been called on a literal holding an X bit.
C3_Witness ==
    /\ ret.op = "same" /\ ret.a = ret.b
    /\ nodes[ret.a].type = "Const"
    /\ isFourState(nodes[ret.a].m.m_num)

\* C4: same() returns true on two nodes of one kind that agree in every
\* field except the source location.
C4_SameIgnoresFileLine ==
    ( /\ ret.op = "same"
      /\ SemanticFields(nodes[ret.a]) = SemanticFields(nodes[ret.b]) )
    => ret.val = TRUE

---------------------------------------------------------------------------
(* SpecQuery: construction followed by the purity and optimizability       *)
(* queries the optimizer passes make.                                      *)

\* n->isPure().
IsPure(i) ==
    /\ i \in Built
    /\ ret' = [op |-> "isPure", a |-> i, b |-> NULL, c |-> NULL,
               val |-> isPure(nodes[i])]
    /\ UNCHANGED <<nodes, ents, clonep, cloneOf>>

\* n->isGateOptimizable().
IsGateOptimizable(i) ==
    /\ i \in Built
    /\ ret' = [op |-> "isGateOptimizable", a |-> i, b |-> NULL, c |-> NULL,
               val |-> isGateOptimizable(nodes[i])]
    /\ UNCHANGED <<nodes, ents, clonep, cloneOf>>

\* n->isPredictOptimizable().
IsPredictOptimizable(i) ==
    /\ i \in Built
    /\ ret' = [op |-> "isPredictOptimizable", a |-> i, b |-> NULL, c |-> NULL,
               val |-> isPredictOptimizable(nodes[i])]
    /\ UNCHANGED <<nodes, ents, clonep, cloneOf>>

NextQuery ==
    \/ \E kind \in BuildableKinds, fl \in FileLines :
         \E args \in CtorArgs(kind) : Construct(kind, fl, args)
    \/ \E i \in NodeIds, flag \in BOOLEAN : sideEffect(i, flag)
    \/ \E i \in NodeIds : IsPure(i)
    \/ \E i \in NodeIds : IsGateOptimizable(i)
    \/ \E i \in NodeIds : IsPredictOptimizable(i)

SpecQuery == Init /\ [][NextQuery]_vars

\* The kinds that do file I/O, draw random numbers, call external C or
\* read the simulation time.
OrderDependentKinds ==
    { "FError", "FRead", "FRewind", "FScanF", "FSeek", "FTell", "FGetS",
      "FGetC", "FUngetC", "FEof", "SScanF", "SystemF", "Rand",
      "URandomRange", "UCFunc", "Time", "TimeD" }

\* C10: a node of a file-I/O, random, external-C or time kind answers false
\* to isPure(), to isGateOptimizable() and to isPredictOptimizable(), and
\* has no numberOperate that returns a value.
C10_OrderDependentKindsMarked ==
    \A i \in Built :
        nodes[i].type \in OrderDependentKinds =>
            /\ ~hasNumberOperate(nodes[i])
            /\ ( /\ ret.a = i
                 /\ ret.op \in {"isPure", "isGateOptimizable",
                                "isPredictOptimizable"} )
               => ret.val = FALSE

---------------------------------------------------------------------------
(* SpecRelink: a reference-holding node, clones of the entities it may     *)
(* point at, cloneTree of the subtree that holds it, and cloneRelink.      *)

\* The non-owning reference a node holds: itemp, funcp or varp.
Target(n) ==
    CASE n.type = "EnumItemRef" -> n.m.m_itemp
      [] n.type = "AddrOfCFunc" -> n.m.m_funcp
      [] n.type \in RefKinds -> n.m.m_varp
      [] OTHER -> NULL

\* Fault variant of AstEnumItemRef::cloneRelink: the assignment without the
\* test, which clears the reference when the item has no clone.
AstEnumItemRef_cloneRelink_noTest(n) ==
    [n EXCEPT !.m.m_itemp = clonep[n.m.m_itemp]]
\* AstEnumItemRef::cloneRelink.
AstEnumItemRef_cloneRelink(n) ==
    IF clonep[n.m.m_itemp] # NULL
    THEN [n EXCEPT !.m.m_itemp = clonep[n.m.m_itemp]]
    ELSE n

\* Fault variant of AstNodeVarRef::cloneRelink: no redirection.
AstNodeVarRef_cloneRelink_none(n) == n
\* AstNodeVarRef::cloneRelink (declared at line 323, defined out of line).
AstNodeVarRef_cloneRelink(n) ==
    IF n.m.m_varp # NULL /\ clonep[n.m.m_varp] # NULL
    THEN [n EXCEPT !.m.m_varp = clonep[n.m.m_varp]]
    ELSE n
\* AstAddrOfCFunc::cloneRelink (declared at line 362, defined out of line).
AstAddrOfCFunc_cloneRelink(n) ==
    IF n.m.m_funcp # NULL /\ clonep[n.m.m_funcp] # NULL
    THEN [n EXCEPT !.m.m_funcp = clonep[n.m.m_funcp]]
    ELSE n
\* AstMemberSel::cloneRelink (declared at line 917, defined out of line).
AstMemberSel_cloneRelink(n) ==
    IF n.m.m_varp # NULL /\ clonep[n.m.m_varp] # NULL
    THEN [n EXCEPT !.m.m_varp = clonep[n.m.m_varp]]
    ELSE n

\* virtual cloneRelink(); AstNode's default does nothing.
cloneRelink(n) ==
    CASE n.type = "EnumItemRef" -> AstEnumItemRef_cloneRelink(n)
      [] n.type \in NodeVarRefKinds -> AstNodeVarRef_cloneRelink(n)
      [] n.type = "AddrOfCFunc" -> AstAddrOfCFunc_cloneRelink(n)
      [] n.type = "MemberSel" -> AstMemberSel_cloneRelink(n)
      [] OTHER -> n

\* The nodes of the subtree rooted at i, root first (every node of the
\* model that has a child has it in op1p).
RECURSIVE Subtree(_)
Subtree(i) == IF i = NULL THEN <<>> ELSE <<i>> \o Subtree(nodes[i].op1p)

\* The first n free arena slots in ascending order.
RECURSIVE FreeSlots(_, _)
FreeSlots(n, used) ==
    IF n = 0 THEN <<>>
    ELSE LET f == CHOOSE i \in NodeIds \ used :
                    \A j \in NodeIds \ used : i <= j
         IN <<f>> \o FreeSlots(n - 1, used \cup {f})

\* The reference node built so far, and the roots of whole trees.
RefNodes == { i \in Live : nodes[i].type \in RefKinds }
Roots ==
    { i \in Live : \A j \in Live : nodes[j].op1p # i /\ nodes[j].op2p # i }

InitRelink ==
    /\ nodes = [i \in NodeIds |->
                  IF i = 1
                  THEN New("Const", "t.v:1", <<NULL, NULL, NULL, NULL>>,
                           [num |-> V3Number(1, 1)])
                  ELSE NoNode]
    /\ ents = {1}
    /\ clonep = [e \in Entities |-> NULL]
    /\ cloneOf = [i \in NodeIds |-> NULL]
    /\ ret = NoRet

\* new Ast<kind>(fl, ...) for a reference-holding kind; MemberSel selects
\* from the leaf.
ConstructRef(kind, args) ==
    /\ kind \in RefKinds
    /\ RefNodes = {}
    /\ nodes' = [nodes EXCEPT
                   ![Alloc] = New(kind, nodes[1].fileline,
                                  <<1, NULL, NULL, NULL>>, args)]
    /\ ret' = [op |-> "new", a |-> Alloc, b |-> NULL, c |-> NULL,
               val |-> FALSE]
    /\ UNCHANGED <<ents, clonep, cloneOf>>

\* new AstNot(fl, refp): the reference becomes the operand of a parent.
ConstructParent(i) ==
    /\ i \in RefNodes /\ i \in Roots
    /\ cloneOf[i] = NULL
    /\ NumAllocated < MaxNodes
    /\ nodes' = [nodes EXCEPT
                   ![Alloc] = New("Not", nodes[i].fileline,
                                  <<i, NULL, NULL, NULL>>, NoArgs)]
    /\ ret' = [op |-> "new", a |-> Alloc, b |-> NULL, c |-> NULL,
               val |-> FALSE]
    /\ UNCHANGED <<ents, clonep, cloneOf>>

\* AstNodeVarRef::varp(AstVar*) and AstMemberSel::varp(AstVar*), called by
\* the linker on a reference it has not resolved yet.
SetVarp(i, e) ==
    /\ i \in Live
    /\ nodes[i].type \in NodeVarRefKinds \cup {"MemberSel"}
    /\ nodes[i].m.m_varp = NULL
    /\ e \in ents
    /\ nodes' = [nodes EXCEPT
                   ![i].m.m_varp = e,
                   ![i].dtypep = IF nodes[i].type = "MemberSel" THEN @
                                 ELSE dtypeFromEntity(e, @)]
    /\ ret' = [op |-> "varp", a |-> i, b |-> e, c |-> NULL, val |-> FALSE]
    /\ UNCHANGED <<ents, clonep, cloneOf>>

\* d->cloneTree() on a declaration, enum item or function d: a new entity,
\* which d->clonep() returns from now on.
CloneDecl(d) ==
    /\ d \in ents
    /\ Entities \ ents # {}
    /\ LET e == CHOOSE x \in Entities \ ents :
                  \A y \in Entities \ ents : x <= y
       IN /\ ents' = ents \cup {e}
          /\ clonep' = [clonep EXCEPT ![d] = e]
          /\ ret' = [op |-> "cloneDecl", a |-> d, b |-> e, c |-> NULL,
                     val |-> FALSE]
    /\ UNCHANGED <<nodes, cloneOf>>

\* rootp->cloneTree(false): a copy of every node of the subtree, the copies
\* linked to each other as the originals are.  The tree is cloned once.
CloneTree(root) ==
    /\ root \in Roots /\ root # 1
    /\ \A j \in NodeIds : cloneOf[j] = NULL
    /\ LET olds == Subtree(root)
           n == Len(olds)
       IN /\ NumAllocated + n <= MaxNodes
          /\ LET news == FreeSlots(n, Allocated)
                 Copy(k) == [nodes[olds[k]] EXCEPT
                               !.op1p = IF k < n THEN news[k + 1] ELSE NULL]
             IN /\ nodes' = [j \in NodeIds |->
                               IF \E k \in 1..n : news[k] = j
                               THEN Copy(CHOOSE k \in 1..n : news[k] = j)
                               ELSE nodes[j]]
                /\ cloneOf' = [j \in NodeIds |->
                                 IF \E k \in 1..n : news[k] = j
                                 THEN olds[CHOOSE k \in 1..n : news[k] = j]
                                 ELSE cloneOf[j]]
                /\ ret' = [op |-> "cloneTree", a |-> root, b |-> news[1],
                           c |-> NULL, val |-> FALSE]
    /\ UNCHANGED <<ents, clonep>>

\* nodep->cloneRelink().  ret keeps the reference the node held before the
\* call (b), the reference the node it was copied from held (c), and
\* whether the call directly follows a cloneRelink of the same node (val).
CloneRelink(i) ==
    /\ i \in Live /\ i # 1
    /\ nodes' = [nodes EXCEPT ![i] = cloneRelink(nodes[i])]
    /\ ret' = [op |-> "cloneRelink", a |-> i, b |-> Target(nodes[i]),
               c |-> IF cloneOf[i] # NULL THEN Target(nodes[cloneOf[i]])
                     ELSE NULL,
               val |-> (ret.op = "cloneRelink" /\ ret.a = i)]
    /\ UNCHANGED <<ents, clonep, cloneOf>>

NextRelink ==
    \/ \E kind \in RefKinds :
         \E args \in CtorArgs(kind) : ConstructRef(kind, args)
    \/ \E i \in NodeIds : ConstructParent(i)
    \/ \E i \in NodeIds, e \in Entities : SetVarp(i, e)
    \/ \E d \in Entities : CloneDecl(d)
    \/ \E root \in NodeIds : CloneTree(root)
    \/ \E i \in NodeIds : CloneRelink(i)

SpecRelink == InitRelink /\ [][NextRelink]_vars

---------------------------------------------------------------------------
(* Properties of cloneRelink, checked under SpecRelink.                    *)

\* C5: when cloneRelink runs on the copy of a variable reference that, like
\* the reference it was copied from, points at declaration d, and d has a
\* clone d', the copy ends pointing at d' and not at d, and the original
\* reference still points at d.
C5_CloneRelinkRoundTrip ==
    ( /\ ret.op = "cloneRelink"
      /\ nodes[ret.a].type \in NodeVarRefKinds
      /\ cloneOf[ret.a] # NULL
      /\ ret.b # NULL /\ ret.b = ret.c
      /\ clonep[ret.b] # NULL )
    => /\ nodes[ret.a].m.m_varp = clonep[ret.b]
       /\ nodes[ret.a].m.m_varp # ret.b
       /\ nodes[cloneOf[ret.a]].m.m_varp = ret.b

\* C5 witness: cloneRelink has run on the copy of a VarRef that sits under
\* a cloned parent and whose declaration has a clone.
C5_Witness ==
    /\ ret.op = "cloneRelink"
    /\ nodes[ret.a].type = "VarRef"
    /\ cloneOf[ret.a] # NULL
    /\ ret.b # NULL /\ ret.b = ret.c
    /\ clonep[ret.b] # NULL
    /\ \E j \in Live : nodes[j].type = "Not" /\ nodes[j].op1p = ret.a

\* C6 as stated: cloneRelink on a reference-holding node leaves the
\* reference alone when its target has no clone, points it at the clone
\* when there is one, and a second cloneRelink directly after the first
\* changes nothing.
C6_CloneRelinkAsStated ==
    ( /\ ret.op = "cloneRelink"
      /\ nodes[ret.a].type \in RefKinds
      /\ ret.b # NULL )
    => /\ clonep[ret.b] = NULL => Target(nodes[ret.a]) = ret.b
       /\ clonep[ret.b] # NULL => Target(nodes[ret.a]) = clonep[ret.b]
       /\ ret.val => Target(nodes[ret.a]) = ret.b

\* C6 amended: as above, but the second cloneRelink changes nothing only
\* when the entity the first call left the reference pointing at has no
\* clone of its own; otherwise it moves the reference on to that clone.
C6_CloneRelinkAmended ==
    ( /\ ret.op = "cloneRelink"
      /\ nodes[ret.a].type \in RefKinds
      /\ ret.b # NULL )
    => /\ clonep[ret.b] = NULL => Target(nodes[ret.a]) = ret.b
       /\ clonep[ret.b] # NULL => Target(nodes[ret.a]) = clonep[ret.b]
       /\ (ret.val /\ clonep[ret.b] = NULL) => Target(nodes[ret.a]) = ret.b

\* C6 witness: a second cloneRelink has run on an EnumItemRef that the
\* first call had redirected to the clone of its item.
C6_Witness ==
    /\ ret.op = "cloneRelink"
    /\ ret.val
    /\ nodes[ret.a].type = "EnumItemRef"
    /\ ret.b # NULL
    /\ \E d \in ents : clonep[d] = ret.b
    /\ clonep[ret.b] = NULL
    /\ Target(nodes[ret.a]) = ret.b

---------------------------------------------------------------------------
(* SpecFold: literals and integer arithmetic built bottom-up, speculative  *)
(* numberOperate calls, and the constant-folding pass.                     *)

\* The arithmetic of the number library on two-state operands: the result
\* takes the width of the accumulator out.
opAdd(out, lhs, rhs) == V3Number(out.width, lhs.value + rhs.value)
\* Subtraction adds the two's complement of rhs.
opSub(out, lhs, rhs) ==
    V3Number(out.width, lhs.value + (2 ^ rhs.width - rhs.value))
opMul(out, lhs, rhs) == V3Number(out.width, lhs.value * rhs.value)
\* Division by zero yields the all-ones value of the result width.
opDiv(out, lhs, rhs) ==
    IF rhs.value = 0 THEN V3Number(out.width, 2 ^ out.width - 1)
    ELSE V3Number(out.width, lhs.value \div rhs.value)

\* What a host-language integer division fault leaves behind, and what
\* V3ERROR_NA leaves behind: no number at all.
HostFault ==
    [k |-> "fault", width |-> 0, value |-> 0, valueX |-> 0, str |-> "",
     sized |-> TRUE, isSigned |-> FALSE]
V3ERROR_NA ==
    [k |-> "fatal", width |-> 0, value |-> 0, valueX |-> 0, str |-> "",
     sized |-> TRUE, isSigned |-> FALSE]

\* Fault variant of AstAdd::numberOperate: the body of AstSub's.
AstAdd_numberOperate_opSub(out, lhs, rhs) == opSub(out, lhs, rhs)
AstAdd_numberOperate(out, lhs, rhs) == opAdd(out, lhs, rhs)
AstSub_numberOperate(out, lhs, rhs) == opSub(out, lhs, rhs)
\* Fault variant of AstMul::numberOperate: the body of AstAdd's.
AstMul_numberOperate_opAdd(out, lhs, rhs) == opAdd(out, lhs, rhs)
AstMul_numberOperate(out, lhs, rhs) == opMul(out, lhs, rhs)
\* Fault variant of AstDiv::numberOperate: the host's '/' on the operand
\* values, which faults on a zero divisor.
AstDiv_numberOperate_host(out, lhs, rhs) ==
    IF rhs.value = 0 THEN HostFault
    ELSE V3Number(out.width, lhs.value \div rhs.value)
AstDiv_numberOperate(out, lhs, rhs) == opDiv(out, lhs, rhs)

\* V3Number::bitIs: bit number bit of a two-state number, 0 beyond its
\* width.
bitIs(num, bit) == (num.value \div (2 ^ bit)) % 2
\* V3Number::bitIsExtend: bits at and above lbits repeat bit lbits - 1.
bitIsExtend(num, bit, lbits) ==
    IF bit >= lbits
    THEN (IF lbits > 0 THEN bitIs(num, lbits - 1) ELSE bitIs(num, 0))
    ELSE bitIs(num, bit)
\* The number of w bits whose bit b is B(b).
SetBits(w, B(_)) ==
    LET s[i \in 0..w] == IF i = 0 THEN 0 ELSE s[i - 1] + B(i - 1) * 2 ^ (i - 1)
    IN V3Number(w, s[w])
\* V3Number::opExtendS(lhs, lbits): lhs sign-extended from bit lbits - 1.
opExtendS(out, lhs, lbits) ==
    SetBits(out.width, LAMBDA b : bitIsExtend(lhs, b, lbits))
\* V3Number::opShiftRS(lhs, rhs, lbits): arithmetic shift right, the sign
\* taken from bit lbits - 1 of lhs.
opShiftRS(out, lhs, rhs, lbits) ==
    IF rhs.value < lhs.width
    THEN SetBits(out.width, LAMBDA b : bitIsExtend(lhs, b + rhs.value, lbits))
    ELSE SetBits(out.width, LAMBDA b : bitIsExtend(lhs, lbits, lbits))

\* AstNode::widthMinV() of the node p points at: the width of its data
\* type.
widthMinV(p) == width(nodes[p])

\* Both read the minimum width of the child attached as lhsp().
AstShiftRS_numberOperate(n, out, lhs, rhs) ==
    opShiftRS(out, lhs, rhs, widthMinV(n.op1p))
AstExtendS_numberOperate(n, out, lhs) ==
    opExtendS(out, lhs, widthMinV(n.op1p))

\* virtual numberOperate(out, lhs, rhs) of the kinds built here; the unary
\* kinds take no rhs.
numberOperate(n, out, lhs, rhs) ==
    CASE n.type = "Add" -> AstAdd_numberOperate(out, lhs, rhs)
      [] n.type = "ShiftRS" -> AstShiftRS_numberOperate(n, out, lhs, rhs)
      [] n.type = "ExtendS" -> AstExtendS_numberOperate(n, out, lhs)
      [] n.type = "Sub" -> AstSub_numberOperate(out, lhs, rhs)
      [] n.type = "Mul" -> AstMul_numberOperate(out, lhs, rhs)
      [] n.type = "Div" -> AstDiv_numberOperate(out, lhs, rhs)
      [] n.type \in NumberOperateNAKinds -> V3ERROR_NA

ArithKinds == {"Add", "Sub", "Mul", "Div"}

\* Literal widths and values: every value of every width up to MaxWidth,
\* and the 8-bit literals 2, 3 and 5.
FoldWidths == (1..MaxWidth) \cup {8}
FoldValues(w) == IF w <= MaxWidth THEN 0..(2 ^ w - 1) ELSE {2, 3, 5}

InitFold ==
    /\ nodes = [i \in NodeIds |-> NoNode]
    /\ ents = {}
    /\ clonep = [e \in Entities |-> NULL]
    /\ cloneOf = [i \in NodeIds |-> NULL]
    /\ ret = NoRet

\* The widths the next literal may have.  The parser builds bottom-up: a
\* literal is made while an operator still lacks an operand and there is
\* room for that operator, and the literals of one expression have one
\* width.
LiteralWidths ==
    IF NumAllocated + 1 >= MaxNodes \/ Cardinality(Roots) >= SameArity
    THEN {}
    ELSE { w \in FoldWidths :
             /\ \A j \in Live : width(nodes[j]) = w
             /\ (\E j \in Live : nodes[j].type \in ArithKinds)
                  => (w <= MaxTreeWidth \/ w > MaxWidth) }

\* new AstConst(fl, AstConst::WidthedValue{}, w, v).
NewConst(w, v) ==
    /\ w \in LiteralWidths
    /\ nodes' = [nodes EXCEPT
                   ![Alloc] = New("Const", "t.v:1", <<NULL, NULL, NULL, NULL>>,
                                  [num |-> V3Number(w, v)])]
    /\ ret' = [op |-> "new", a |-> Alloc, b |-> NULL, c |-> NULL,
               val |-> FALSE]
    /\ UNCHANGED <<ents, clonep, cloneOf>>

\* new Ast<kind>(fl, lhsp, rhsp) over the two trees built so far.
NewArith(kind, lhsp, rhsp) ==
    /\ NumAllocated < MaxNodes
    /\ Roots = {lhsp, rhsp} /\ lhsp < rhsp
    /\ nodes' = [nodes EXCEPT
                   ![Alloc] = New(kind, "t.v:1", <<lhsp, rhsp, NULL, NULL>>,
                                  NoArgs)]
    /\ ret' = [op |-> "new", a |-> Alloc, b |-> NULL, c |-> NULL,
               val |-> FALSE]
    /\ UNCHANGED <<ents, clonep, cloneOf>>

\* True when every operand a node holds is a literal.
AllOperandsConst(n) ==
    \A p \in {n.op1p, n.op2p, n.op3p, n.op4p} : p # NULL => IsConst(p)

\* The guard of the folding pass: the node is of a kind that has a
\* numberOperate, it is pure, it is not opaque, and all its operands are
\* literals.
Foldable(i) ==
    /\ i \in Live
    /\ nodes[i].type \in NumberOperateKinds
    /\ isPure(nodes[i]) /\ ~isOpaque(nodes[i])
    /\ AllOperandsConst(nodes[i])

\* The accumulator the caller hands to numberOperate: a zero of the width
\* of the node.
Accumulator(n) == V3Number(width(n), 0)

\* nodep->numberOperate(out, lhs, rhs) called speculatively: the result is
\* looked at and dropped.
NumberOperate(i) ==
    /\ Foldable(i)
    /\ ret' = [op |-> "numberOperate", a |-> i, b |-> NULL, c |-> NULL,
               val |-> numberOperate(nodes[i], Accumulator(nodes[i]),
                                     nodes[nodes[i].op1p].m.m_num,
                                     nodes[nodes[i].op2p].m.m_num)]
    /\ UNCHANGED <<nodes, ents, clonep, cloneOf>>

\* One step of the constant-folding pass: node i is replaced by a literal
\* that carries the folded number and the data type of i, and the operands
\* are deleted.  ret keeps the operand numbers (b, c) and the node replaced
\* (val).
FoldStep(i) ==
    /\ Foldable(i)
    /\ LET n == nodes[i]
           lhs == nodes[n.op1p].m.m_num
           rhs == nodes[n.op2p].m.m_num
           out == numberOperate(n, Accumulator(n), lhs, rhs)
           constp == [New("Const", n.fileline, <<NULL, NULL, NULL, NULL>>,
                          [num |-> out]) EXCEPT !.dtypep = n.dtypep]
       IN /\ nodes' = [nodes EXCEPT ![i] = constp, ![n.op1p] = Deleted,
                                    ![n.op2p] = Deleted]
          /\ ret' = [op |-> "fold", a |-> i, b |-> lhs, c |-> rhs, val |-> n]
    /\ UNCHANGED <<ents, clonep, cloneOf>>

NextFold ==
    \/ \E w \in LiteralWidths : \E v \in FoldValues(w) : NewConst(w, v)
    \/ \E l \in Roots, r \in Roots, kind \in ArithKinds :
         NewArith(kind, l, r)
    \/ \E i \in NodeIds : NumberOperate(i)
    \/ \E i \in NodeIds : FoldStep(i)

SpecFold == InitFold /\ [][NextFold]_vars

---------------------------------------------------------------------------
(* Properties of numberOperate and of the folding pass, checked under      *)
(* SpecFold.                                                               *)

\* v is the residue of e modulo 2^w.
IsResidue(v, e, w) ==
    /\ v \in 0..(2 ^ w - 1)
    /\ \E q \in (0 - 2 ^ w)..(2 ^ w) : e = q * 2 ^ w + v

\* The run-time result of an integer operator on unsigned w-bit operands.
Reference(kind, x, y, w) ==
    CASE kind = "Add" -> (x + y) % (2 ^ w)
      [] kind = "Sub" -> (x + 2 ^ w - y) % (2 ^ w)
      [] kind = "Mul" -> (x * y) % (2 ^ w)
      [] kind = "Div" -> IF y = 0 THEN 2 ^ w - 1 ELSE x \div y

\* The run-time value of the expression rooted at node i.
RECURSIVE Eval(_)
Eval(i) ==
    IF nodes[i].type = "Const" THEN nodes[i].m.m_num.value
    ELSE Reference(nodes[i].type, Eval(nodes[i].op1p), Eval(nodes[i].op2p),
                   width(nodes[i]))

\* C7: numberOperate of Add, Sub and Mul on two unsigned literals of width
\* w with values x and y writes a two-state number of width w whose value
\* is x op y reduced modulo 2^w.
C7_ArithModuloWidth ==
    ( /\ ret.op = "numberOperate"
      /\ nodes[ret.a].type \in {"Add", "Sub", "Mul"} )
    => LET n == nodes[ret.a]
           x == nodes[n.op1p].m.m_num.value
           y == nodes[n.op2p].m.m_num.value
           w == nodes[n.op1p].m.m_num.width
       IN /\ ret.val.k = "logic" /\ ret.val.valueX = 0
          /\ ret.val.width = w
          /\ n.type = "Add" => IsResidue(ret.val.value, x + y, w)
          /\ n.type = "Sub" => IsResidue(ret.val.value, x - y, w)
          /\ n.type = "Mul" => IsResidue(ret.val.value, x * y, w)

\* C7 witness: the 4-bit addition 12 + 7 has written 3.
C7_Witness ==
    /\ ret.op = "numberOperate"
    /\ nodes[ret.a].type = "Add"
    /\ nodes[nodes[ret.a].op1p].m.m_num = V3Number(4, 12)
    /\ nodes[nodes[ret.a].op2p].m.m_num = V3Number(4, 7)
    /\ ret.val = V3Number(4, 3)

\* What a folding step leaves: a literal without operands in the place of
\* the node, carrying the data type the node had, the operands deleted; and
\* while an operator node remains, the pass has a node it can fold.
FoldResultShape ==
    /\ ret.op = "fold" =>
         /\ nodes[ret.a].type = "Const"
         /\ nodes[ret.a].op1p = NULL /\ nodes[ret.a].op2p = NULL
         /\ nodes[ret.a].dtypep = ret.val.dtypep
         /\ nodes[ret.a].m.m_num.k = "logic"
         /\ nodes[ret.a].m.m_num.width = ret.val.dtypep.width
         /\ nodes[ret.val.op1p] = Deleted /\ nodes[ret.val.op2p] = Deleted
    /\ (\E i \in Live : nodes[i].type # "Const") => \E i \in Live : Foldable(i)
    /\ ( /\ ret.op = "fold" /\ ret.val.type = "Mul"
         /\ ret.b = V3Number(8, 8) /\ ret.c = V3Number(8, 2) )
       => /\ nodes[ret.a].m.m_num = V3Number(8, 16)
          /\ Live = {ret.a}

\* A folding step changes the run-time value and the data type of no tree.
FoldKeepsValue ==
    ret'.op = "fold" =>
        \A r \in Roots :
            /\ r \in Roots'
            /\ Eval(r)' = Eval(r)
            /\ nodes'[r].dtypep = nodes[r].dtypep

\* C8: folding bottom-up replaces each operator node whose operands are
\* literals by a literal of the node's data type without changing the value
\* of the expression, and can go on until one literal is left; Mul(Add(3,
\* 5), 2) over 8-bit operands ends as the single literal 16 of width 8.
C8_FoldBottomUp == [](FoldResultShape) /\ [][FoldKeepsValue]_vars

\* C8 witness: the last step of folding Mul(Add(3, 5), 2) has left the
\* single 8-bit literal 16.
C8_Witness ==
    /\ ret.op = "fold" /\ ret.val.type = "Mul"
    /\ ret.b = V3Number(8, 8) /\ ret.c = V3Number(8, 2)
    /\ Live = {ret.a}
    /\ nodes[ret.a].m.m_num = V3Number(8, 16)
    /\ width(nodes[ret.a]) = 8

\* C9: folding a Div node whose right operand is the literal 0 ends with a
\* literal holding the all-ones value of the result width, whatever the
\* left operand is.
C9_DivByZeroAllOnes ==
    ( /\ ret.op = "fold"
      /\ ret.val.type = "Div"
      /\ ret.c.value = 0 )
    => /\ nodes[ret.a].type = "Const"
       /\ nodes[ret.a].m.m_num.k = "logic"
       /\ nodes[ret.a].m.m_num.valueX = 0
       /\ nodes[ret.a].m.m_num.width = ret.val.dtypep.width
       /\ nodes[ret.a].m.m_num.value = 2 ^ ret.val.dtypep.width - 1

\* C9 witness: 7 / 0 over 4 bits has been folded to 15.
C9_Witness ==
    /\ ret.op = "fold"
    /\ ret.val.type = "Div"
    /\ ret.b = V3Number(4, 7) /\ ret.c = V3Number(4, 0)
    /\ nodes[ret.a].m.m_num = V3Number(4, 15)

---------------------------------------------------------------------------
(* SpecHooks: one node of any kind built over literal operands, and the    *)
(* hooks the generic passes call on it.                                    *)

\* The kinds the node under test may have: one node is built.
HookKinds == IF Built = {} THEN BuildableKinds ELSE {}

\* What a call of numberOperate comes to: the fatal V3ERROR_NA of the
\* stubs, or a value written to out.
numberOperateOutcome(n) ==
    IF n.type \in NumberOperateNAKinds THEN "V3ERROR_NA" ELSE "value"

\* Fault variant of the numberOperate call: the body also sets the data
\* type of the node from its left operand.
TryFold_dtypeFrom(i) ==
    /\ i \in Built
    /\ Foldable(i)
    /\ nodes' = [nodes EXCEPT ![i].dtypep = nodes[nodes[i].op1p].dtypep]
    /\ ret' = [op |-> "tryFold", a |-> i, b |-> NULL, c |-> NULL,
               val |-> numberOperateOutcome(nodes[i])]
    /\ UNCHANGED <<ents, clonep, cloneOf>>
\* The folding pass visits node i: past the guard it calls numberOperate,
\* whose body writes to out and to nothing else.
TryFold(i) ==
    /\ i \in Built
    /\ Foldable(i)
    /\ ret' = [op |-> "tryFold", a |-> i, b |-> NULL, c |-> NULL,
               val |-> numberOperateOutcome(nodes[i])]
    /\ UNCHANGED <<nodes, ents, clonep, cloneOf>>

\* AstCond / AstCondBound::cloneType(condp, thenp, elsep).
AstNodeCond_cloneType(n, condp, thenp, elsep) ==
    New(n.type, n.fileline, <<condp, thenp, elsep, NULL>>, NoArgs)

\* Kinds that have a cloneType member: it is declared pure virtual in
\* AstNodeBiop and in AstNodeCond, and nowhere else.
CloneTypeKinds == NodeBiopKinds \cup NodeCondKinds

\* A generic rewrite pass rebuilds the binary or ternary node i over the
\* operands (lhsp, rhsp, thsp) through cloneType.  For a kind that has no
\* cloneType member there is nothing the pass can call: no node is made.
Rebuild(i, lhsp, rhsp, thsp) ==
    /\ i \in Built
    /\ nodes[i].type \in NodeBiopKinds \cup NodeTriopKinds
    /\ NumAllocated < MaxNodes
    /\ \A j \in Live : cloneOf[j] = NULL
    /\ IF nodes[i].type \in CloneTypeKinds
       THEN /\ nodes' = [nodes EXCEPT
                           ![Alloc] =
                               IF nodes[i].type \in NodeBiopKinds
                               THEN cloneType(nodes[i], lhsp, rhsp)
                               ELSE AstNodeCond_cloneType(nodes[i], lhsp,
                                                          rhsp, thsp)]
            /\ cloneOf' = [cloneOf EXCEPT ![Alloc] = i]
            /\ ret' = [op |-> "rebuild", a |-> i, b |-> Alloc,
                       c |-> <<lhsp, rhsp, thsp>>, val |-> TRUE]
       ELSE /\ ret' = [op |-> "rebuild", a |-> i, b |-> NULL,
                       c |-> <<lhsp, rhsp, thsp>>, val |-> FALSE]
            /\ UNCHANGED <<nodes, cloneOf>>
    /\ UNCHANGED <<ents, clonep>>

\* The two grammars a node is rendered in, by the name of the renderer.
Grammars == {"emitVerilog", "emitC"}
\* Stands for the non-empty format string a renderer returns.
Template == "%k(%l %f+ %r)"

\* n->emitVerilog() / n->emitC(): V3ERROR_NA_RETURN("") is fatal; otherwise
\* the format string is returned, which for two renderers is "".
emit(n, g) ==
    IF n.type \in EmitNAKinds(g) THEN [fatal |-> TRUE, text |-> ""]
    ELSE IF n.type \in EmitEmptyKinds(g) THEN [fatal |-> FALSE, text |-> ""]
    ELSE [fatal |-> FALSE, text |-> Template]

\* A back end or a dump renders node i in grammar g.
Emit(i, g) ==
    /\ i \in Built
    /\ ret' = [op |-> g, a |-> i, b |-> NULL, c |-> NULL,
               val |-> emit(nodes[i], g)]
    /\ UNCHANGED <<nodes, ents, clonep, cloneOf>>

\* n->cleanOut(): V3ERROR_NA_RETURN is fatal; AstCMath answers from its
\* member.
cleanOut(n) ==
    IF n.type \in CleanOutNAKinds THEN [fatal |-> TRUE, value |-> FALSE]
    ELSE IF n.type = "CMath" THEN [fatal |-> FALSE, value |-> n.m.m_cleanOut]
    ELSE [fatal |-> FALSE, value |-> n.type \in CleanOutTrueKinds]

\* The operand-slot queries a kind declares, by the number of its operands
\* (AstFError declares those of its one operand itself).
SlotQueries(kind) ==
    CASE kind \in NodeQuadopKinds ->
            {"cleanLhs", "cleanRhs", "cleanThs", "cleanFhs",
             "sizeMattersLhs", "sizeMattersRhs", "sizeMattersThs",
             "sizeMattersFhs"}
      [] kind \in NodeTriopKinds ->
            {"cleanLhs", "cleanRhs", "cleanThs",
             "sizeMattersLhs", "sizeMattersRhs", "sizeMattersThs"}
      [] kind \in NodeBiopKinds ->
            {"cleanLhs", "cleanRhs", "sizeMattersLhs", "sizeMattersRhs"}
      [] kind \in NodeUniopKinds \cup {"FError"} ->
            {"cleanLhs", "sizeMattersLhs"}
      [] OTHER -> {}

\* AstRedXor::cleanLhs reads the width of the attached operand.
AstRedXor_cleanLhs(n) == width(nodes[n.op1p]) \notin {1, 2, 4, 8, 16}

\* n->cleanLhs() ... n->sizeMattersFhs().
slotFact(n, q) ==
    IF n.type = "RedXor" /\ q = "cleanLhs"
    THEN [fatal |-> FALSE, value |-> AstRedXor_cleanLhs(n)]
    ELSE [fatal |-> FALSE, value |-> n.type \in SlotFactTrueKinds(q)]

\* The width pass or the back end asks node i whether its result is clean.
CleanOut(i) ==
    /\ i \in Built
    /\ ret' = [op |-> "cleanOut", a |-> i, b |-> NULL, c |-> NULL,
               val |-> cleanOut(nodes[i])]
    /\ UNCHANGED <<nodes, ents, clonep, cloneOf>>

\* ... and asks a cleanliness or size-sensitivity fact of an operand slot.
SlotFact(i, q) ==
    /\ i \in Built
    /\ q \in SlotQueries(nodes[i].type)
    /\ ret' = [op |-> q, a |-> i, b |-> NULL, c |-> NULL,
               val |-> slotFact(nodes[i], q)]
    /\ UNCHANGED <<nodes, ents, clonep, cloneOf>>

\* Every operand-slot query there is.
AllSlotQueries == SlotQueries("CountBits")

\* The flavor queries, declared by AstNodeUniop and AstNodeBiop.
Flavors == {"doubleFlavor", "signedFlavor", "stringFlavor"}
FlavorKinds == NodeUniopKinds \cup NodeBiopKinds

\* Fault variant of the flavor queries: answered from the data type of the
\* node instead of from its kind (the double data type is a signed one).
flavor_fromDType(n, f) ==
    CASE f = "doubleFlavor" -> n.dtypep.k = "double"
      [] f = "signedFlavor" -> n.dtypep.isSigned
      [] f = "stringFlavor" -> n.dtypep.k = "string"
\* n->doubleFlavor() / n->signedFlavor() / n->stringFlavor(): false unless
\* the kind overrides it.
flavor(n, f) == n.type \in FlavorTrueKinds(f)

\* The width pass asks node i for one of its flavors.
Flavor(i, f) ==
    /\ i \in Built
    /\ nodes[i].type \in FlavorKinds
    /\ ret' = [op |-> f, a |-> i, b |-> NULL, c |-> NULL,
               val |-> flavor(nodes[i], f)]
    /\ UNCHANGED <<nodes, ents, clonep, cloneOf>>

NextHooks ==
    \/ \E kind \in HookKinds : \E args \in CtorArgs(kind) :
         Construct(kind, "t.v:1", args)
    \/ \E i \in NodeIds, flag \in BOOLEAN : sideEffect(i, flag)
    \/ \E i \in NodeIds : TryFold(i)
    \/ \E i \in NodeIds, l \in Operands :
         \E r \in Operands \ {l} : Rebuild(i, l, r, l)
    \/ \E i \in NodeIds, g \in Grammars : Emit(i, g)
    \/ \E i \in NodeIds : CleanOut(i)
    \/ \E i \in NodeIds, q \in AllSlotQueries : SlotFact(i, q)
    \/ \E i \in NodeIds, f \in Flavors : Flavor(i, f)
    \/ \E i \in NodeIds, j \in NodeIds : Same(i, j)

SpecHooks == Init /\ [][NextHooks]_vars

\* C11: the folding pass never reaches the fatal not-applicable fold: each
\* node of a kind whose numberOperate is the V3ERROR_NA stub is impure or
\* opaque, so no call of numberOperate past the guard ends in V3ERROR_NA.
C11_FatalFoldUnreachable ==
    /\ \A i \in Built :
         nodes[i].type \in NumberOperateNAKinds =>
            ~isPure(nodes[i]) \/ isOpaque(nodes[i])
    /\ ret.op = "tryFold" => ret.val # "V3ERROR_NA"

\* C12: every concrete binary and ternary kind has a cloneType, and the
\* node a generic pass rebuilds through it has the concrete kind of the
\* node it was rebuilt from.
C12_CloneTypeEveryBinaryTernary ==
    /\ \A i \in Built :
         nodes[i].type \in NodeBiopKinds \cup NodeTriopKinds =>
            nodes[i].type \in CloneTypeKinds
    /\ ret.op = "rebuild" =>
         /\ ret.val = TRUE
         /\ nodes[ret.b].type = nodes[ret.a].type

\* C13: whichever grammar a node of whichever kind is rendered in, the
\* renderer raises the fatal not-applicable error or returns a non-empty
\* template; it never returns an empty text.
C13_EmitTemplateOrFatal ==
    ret.op \in Grammars => ret.val.fatal \/ ret.val.text # ""

\* C14: cleanOut and the operand-slot cleanliness and size-sensitivity
\* queries answer with a boolean and raise no fatal error, for a node of
\* any kind.
C14_CleanQueriesNeverFatal ==
    /\ \A i \in Built : ~cleanOut(nodes[i]).fatal
    /\ ret.op \in {"cleanOut"} \cup AllSlotQueries =>
         ~ret.val.fatal /\ ret.val.value \in BOOLEAN

\* C15: when its constructor returns, a node that reports doubleFlavor()
\* has the 64-bit double data type, and a node that reports stringFlavor()
\* has the string data type.
C15_FlavorForcesDType ==
    \A i \in Built :
        (ret.op = "new" /\ ret.a = i /\ nodes[i].type \in FlavorKinds) =>
            /\ flavor(nodes[i], "doubleFlavor") =>
                 nodes[i].dtypep = dtypeSetDouble
            /\ flavor(nodes[i], "stringFlavor") =>
                 nodes[i].dtypep = dtypeSetString

\* The flavors a node reports.
FlavorsOf(n) == { f \in Flavors : flavor(n, f) }
AtMostOneFlavor ==
    \A i \in Live :
        nodes[i].type \in FlavorKinds => Cardinality(FlavorsOf(nodes[i])) <= 1
FlavorsFixed ==
    \A i \in Live :
        (nodes[i].type \in FlavorKinds /\ nodes'[i].type # "deleted") =>
            FlavorsOf(nodes'[i]) = FlavorsOf(nodes[i])

\* C16: a unary or binary node reports at most one of doubleFlavor(),
\* signedFlavor() and stringFlavor(), in every reachable state, and no step
\* changes what it reports.
C16_FlavorsExclusiveAndFixed == [](AtMostOneFlavor) /\ [][FlavorsFixed]_vars
\* A node of a kind that overrides a flavor query has been asked for that
\* flavor and has answered true.
C16_Witness ==
    /\ ret.op \in Flavors /\ ret.val = TRUE
    /\ nodes[ret.a].type \in {"ShiftRS", "AddD", "ConcatN"}

\* The kinds that advertise commutativity (AstNodeBiComAsv derives from
\* AstNodeBiCom).
CommutativeKinds == NodeBiComKinds \cup NodeBiComAsvKinds
OperandsAsGiven ==
    /\ (ret.op = "new" /\ nodes[ret.a].type \in CommutativeKinds) =>
          /\ nodes[ret.a].op1p = CtorOps(nodes[ret.a].type, NoArgs)[1]
          /\ nodes[ret.a].op2p = CtorOps(nodes[ret.a].type, NoArgs)[2]
    /\ (ret.op = "rebuild" /\ nodes[ret.a].type \in CommutativeKinds) =>
          /\ ret.val = TRUE
          /\ nodes[ret.b].op1p = ret.c[1]
          /\ nodes[ret.b].op2p = ret.c[2]
OperandsKept ==
    \A i \in Live :
        nodes[i].type \in CommutativeKinds =>
            /\ nodes'[i].type = nodes[i].type
            /\ nodes'[i].op1p = nodes[i].op1p
            /\ nodes'[i].op2p = nodes[i].op2p

\* C17: a commutative or commutative-associative node constructed over
\* (a, b), or made by cloneType(a, b), has lhsp = a and rhsp = b, and no
\* operation on the node (construction of another node, cloneType, same,
\* the fold hook, the cleanliness queries) changes its operands.
C17_CommutativeOrderKept == [](OperandsAsGiven) /\ [][OperandsKept]_vars
\* A commutative-associative node built over (1, 2) has been rebuilt by
\* cloneType over (2, 1).
C17_Witness ==
    /\ ret.op = "rebuild" /\ ret.val = TRUE
    /\ nodes[ret.a].type \in NodeBiComAsvKinds
    /\ nodes[ret.a].op1p = 1 /\ nodes[ret.a].op2p = 2
    /\ ret.c[1] = 2 /\ ret.c[2] = 1

\* C18: a call of numberOperate, of whichever kind, leaves every node as it
\* was: the operand literals, the fields, children and data type of the
\* node called, and every entity a reference points at; only the
\* accumulator handed in is written.
C18_NumberOperateWritesOutOnly ==
    [][ret'.op = "tryFold" =>
          /\ nodes' = nodes
          /\ ents' = ents /\ clonep' = clonep /\ cloneOf' = cloneOf]_vars
\* numberOperate has been called on a Signed node, whose body makes two
\* calls on out, and its result is a value.
C18_Witness ==
    /\ ret.op = "tryFold" /\ ret.val = "value"
    /\ nodes[ret.a].type = "Signed"
    /\ IsConst(nodes[ret.a].op1p)

---------------------------------------------------------------------------
(* SpecEval: two nodes of one kind over children of different widths, and  *)
(* numberOperate called on them with operand constants the caller picks.   *)

\* The kinds evaluated: integer arithmetic and the two sign-extending kinds.
EvalKinds == ArithKinds \cup {"ShiftRS", "ExtendS"}

\* Two literal children, one bit and MaxTreeWidth bits wide.
InitEval ==
    /\ nodes = [i \in NodeIds |->
                  IF i = 1
                  THEN New("Const", "t.v:1", <<NULL, NULL, NULL, NULL>>,
                           [num |-> V3Number(1, 1)])
                  ELSE IF i = 2
                  THEN New("Const", "t.v:1", <<NULL, NULL, NULL, NULL>>,
                           [num |-> V3Number(MaxTreeWidth, 1)])
                  ELSE NoNode]
    /\ ents = {}
    /\ clonep = [e \in Entities |-> NULL]
    /\ cloneOf = [i \in NodeIds |-> NULL]
    /\ ret = NoRet

\* The kinds the next node may have: the second node has the kind of the
\* first.
EvalBuildable == BuildableKinds \cap EvalKinds

\* new Ast<kind>(fl, lhsp, rhsp, args...) over one of the two children.
NewEval(kind, lhsp, args) ==
    /\ kind \in EvalBuildable
    /\ nodes' = [nodes EXCEPT
                   ![Alloc] = New(kind, "t.v:1", <<lhsp, 1, NULL, NULL>>,
                                  args)]
    /\ ret' = [op |-> "new", a |-> Alloc, b |-> NULL, c |-> NULL,
               val |-> FALSE]
    /\ UNCHANGED <<ents, clonep, cloneOf>>

\* The operand constants a caller passes: every value of MaxWidth bits as
\* lhs, the shift counts up to MaxTreeWidth as rhs.
EvalLhs == { V3Number(MaxWidth, v) : v \in 0..(2 ^ MaxWidth - 1) }
EvalRhs == { V3Number(MaxWidth, v) : v \in 0..MaxTreeWidth }
\* The accumulator the caller hands in.
EvalOut == V3Number(MaxWidth, 0)

\* nodep->numberOperate(out, lhs, rhs) with constants that need not be the
\* values of the attached children.
NumberOperateWith(i, lhs, rhs) ==
    /\ i \in Built
    /\ ret' = [op |-> "numberOperate", a |-> i, b |-> lhs, c |-> rhs,
               val |-> numberOperate(nodes[i], EvalOut, lhs, rhs)]
    /\ UNCHANGED <<nodes, ents, clonep, cloneOf>>

NextEval ==
    \/ \E kind \in EvalBuildable, lhsp \in Operands :
         \E args \in CtorArgs(kind) : NewEval(kind, lhsp, args)
    \/ \E i \in NodeIds, lhs \in EvalLhs, rhs \in EvalRhs :
         NumberOperateWith(i, lhs, rhs)

SpecEval == InitEval /\ [][NextEval]_vars

\* C19: what numberOperate writes is decided by the kind, the node-local
\* payload and the operand constants passed in: a second node of the same
\* kind and payload, handed the same constants, writes the same number,
\* whatever children the two nodes have.
C19_FoldFunctionOfOperands ==
    ret.op = "numberOperate" =>
        \A j \in Built :
            ( /\ nodes[j].type = nodes[ret.a].type
              /\ nodes[j].m = nodes[ret.a].m ) =>
                numberOperate(nodes[j], EvalOut, ret.b, ret.c) = ret.val

---------------------------------------------------------------------------
(* SpecBroken: a reference-holding node, clones of its target, the clone   *)
(* of the node, relinking, deletion of the original declaration, and the   *)
(* broken() check the debug build runs between passes.                     *)

\* Fault variant of broken(): a null reference is let through and only a
\* dangling one is reported.
broken_nullOk(n) == Target(n) # NULL /\ Target(n) \notin ents
\* AstNodeVarRef / AstAddrOfCFunc / AstEnumItemRef / AstMemberSel::broken
\* (declared at lines 321, 363, 621 and 918, defined out of line): true,
\* an error, when the reference is null or its target does not exist.
broken(n) == Target(n) = NULL \/ Target(n) \notin ents

\* nodep->broken() on a reference-holding node.
Broken(i) ==
    /\ i \in RefNodes
    /\ ret' = [op |-> "broken", a |-> i, b |-> Target(nodes[i]), c |-> NULL,
               val |-> broken(nodes[i])]
    /\ UNCHANGED <<nodes, ents, clonep, cloneOf>>

\* The original declaration is deleted once its clones have taken over;
\* its clonep() goes with it.
DeleteDecl(d) ==
    /\ d = 1 /\ d \in ents
    /\ ents' = ents \ {d}
    /\ clonep' = [clonep EXCEPT ![d] = NULL]
    /\ ret' = [op |-> "deleteDecl", a |-> d, b |-> NULL, c |-> NULL,
               val |-> FALSE]
    /\ UNCHANGED <<nodes, cloneOf>>

\* Declarations are cloned and references relinked while the original
\* declaration exists.
NextBroken ==
    \/ \E kind \in RefKinds :
         \E args \in CtorArgs(kind) : ConstructRef(kind, args)
    \/ \E i \in NodeIds, e \in Entities : SetVarp(i, e)
    \/ 1 \in ents /\ \E d \in Entities : CloneDecl(d)
    \/ \E root \in NodeIds : CloneTree(root)
    \/ 1 \in ents /\ \E i \in NodeIds : CloneRelink(i)
    \/ \E d \in Entities : DeleteDecl(d)
    \/ \E i \in NodeIds : Broken(i)

SpecBroken == InitRelink /\ [][NextBroken]_vars

---------------------------------------------------------------------------
(* SpecConst: the constructors of AstConst.                                *)

MaxLiterals == 2     \* literals built in one run

VL_EDATASIZE == 32

\* The values handed to the 32- and 64-bit forms; each fits every width it
\* is stored in, so storing it reduces nothing.
SmallValues == {0, 1, 2}

\* V3Number(nodep, width, value) for the widths of a host word.
V3NumberWord(w, v) ==
    [k |-> "logic", width |-> w, value |-> v, valueX |-> 0, str |-> "",
     sized |-> TRUE, isSigned |-> FALSE]
\* V3Number::width(width, sized): sets the width and whether it is sized;
\* the signedness is left as it was.
V3Number_width(num, w, sized) == [num EXCEPT !.width = w, !.sized = sized]
\* V3Number::isSigned(bool).
V3Number_isSigned(num, s) == [num EXCEPT !.isSigned = s]
\* V3Number(nodep, nodedtypep): zero or empty, shaped after the data type.
V3NumberDTyped(dt) ==
    IF dt.k = "string" THEN V3NumberString("")
    ELSE IF dt.k = "double" THEN V3NumberDouble(0)
    ELSE V3Number(dt.width, 0)
\* V3Number(nodep, sourcep): the number a Verilog literal denotes.
SourceLiterals == {"1'b1", "2'sb11", "'d2", "3"}
V3NumberParse(sourcep) ==
    CASE sourcep = "1'b1" -> V3Number(1, 1)
      [] sourcep = "2'sb11" -> V3Number_isSigned(V3Number(2, 3), TRUE)
      [] sourcep = "'d2" -> V3Number_width(V3NumberWord(32, 2), 32, FALSE)
      [] sourcep = "3" ->
            V3Number_isSigned(
                V3Number_width(V3NumberWord(32, 3), 32, FALSE), TRUE)
\* V3Number(VerilogStringLiteral, nodep, str): eight bits per character, at
\* least eight bits; a logic number, not a string.
StringLiterals == {"", "a"}
V3NumberVerilogString(str) ==
    IF str = "" THEN V3Number(8, 0) ELSE V3Number(8 * Len(str), 97)
\* V3Number(Null, nodep): one unsized bit.
V3NumberNull == V3Number_width(V3Number(1, 0), 1, FALSE)

\* AstNode::dtypeSetLogicUnsized(width, widthMin, numeric): a logic type
\* of that width and signedness (the minimum width is not part of the
\* model's data types).
dtypeSetLogicUnsized(w, widthMin, s) == dtypeSetLogicSized(w, s)

\* The numbers handed to AstConst(fl, num); signed ones included.
GivenNums ==
    ConstNums
    \cup { V3Number_isSigned(V3Number(w, v), TRUE) :
             w \in 1..MaxConstWidth, v \in 0..1 }
\* The data types handed to AstConst(fl, DTyped, nodedtypep).
GivenDTypes ==
    { dtypeSetDouble, dtypeSetString }
    \cup { dtypeSetLogicSized(w, s) : w \in 1..MaxConstWidth, s \in BOOLEAN }

ConstForms ==
    { "Number", "WidthedValue", "DTyped", "StringToParse",
      "VerilogStringLiteral", "uint32_t", "Unsized32", "Signed32",
      "Unsized64", "SizedEData", "RealDouble", "String", "BitFalse",
      "BitTrue", "Null" }

\* What each constructor form can be given.
ConstArgs(form) ==
    CASE form = "Number" -> GivenNums
      [] form = "WidthedValue" ->
            { <<w, v>> : w \in 1..MaxConstWidth + 1, v \in 0..1 }
      [] form = "DTyped" -> GivenDTypes
      [] form = "StringToParse" -> SourceLiterals
      [] form \in {"VerilogStringLiteral", "String"} -> StringLiterals
      [] form \in {"uint32_t", "Unsized32", "Signed32", "Unsized64",
                   "SizedEData"} -> SmallValues
      [] form = "RealDouble" -> {0, 1}
      [] form = "BitTrue" -> BOOLEAN
      [] OTHER -> { NULL }

\* m_num and the data type when the constructor of a form returns.
AstConst(form, x) ==
    CASE form = "Number" -> [num |-> x, dtypep |-> initWithNumber(x)]
      [] form = "WidthedValue" ->
            LET num == V3Number(x[1], x[2])
            IN [num |-> num, dtypep |-> initWithNumber(num)]
      [] form = "DTyped" ->
            LET num == V3NumberDTyped(x)
            IN [num |-> num, dtypep |-> initWithNumber(num)]
      [] form = "StringToParse" ->
            LET num == V3NumberParse(x)
            IN [num |-> num, dtypep |-> initWithNumber(num)]
      [] form = "VerilogStringLiteral" ->
            LET num == V3NumberVerilogString(x)
            IN [num |-> num, dtypep |-> initWithNumber(num)]
      [] form = "uint32_t" ->
            LET num == V3NumberWord(32, x)
            IN [num |-> num,
                dtypep |-> dtypeSetLogicUnsized(num.width, 0, FALSE)]
      [] form = "Unsized32" ->
            LET num == V3Number_width(V3NumberWord(32, x), 32, FALSE)
            IN [num |-> num, dtypep |-> dtypeSetLogicUnsized(32, 1, FALSE)]
      [] form = "Signed32" ->
            LET num == V3Number_width(V3NumberWord(32, x), 32, TRUE)
            IN [num |-> num, dtypep |-> dtypeSetLogicUnsized(32, 1, TRUE)]
      [] form = "Unsized64" ->
            [num |-> V3NumberWord(64, x),
             dtypep |-> dtypeSetLogicSized(64, FALSE)]
      [] form = "SizedEData" ->
            [num |-> V3NumberWord(VL_EDATASIZE, x),
             dtypep |-> dtypeSetLogicSized(VL_EDATASIZE, FALSE)]
      [] form = "RealDouble" ->
            [num |-> V3NumberDouble(x), dtypep |-> dtypeSetDouble]
      [] form = "String" ->
            [num |-> V3NumberString(x), dtypep |-> dtypeSetString]
      [] form = "BitFalse" -> [num |-> V3Number(1, 0), dtypep |-> dtypeSetBit]
      [] form = "BitTrue" ->
            [num |-> V3Number(1, IF x THEN 1 ELSE 0), dtypep |-> dtypeSetBit]
      [] form = "Null" ->
            [num |-> V3NumberNull, dtypep |-> initWithNumber(V3NumberNull)]

InitConst ==
    /\ nodes = [i \in NodeIds |-> NoNode]
    /\ ents = {1, 2}
    /\ clonep = [e \in Entities |-> NULL]
    /\ cloneOf = [i \in NodeIds |-> NULL]
    /\ ret = NoRet

\* new AstConst(fl, <form>, x).
ConstructConst(form, x) ==
    /\ NumAllocated < MaxLiterals
    /\ nodes' = [nodes EXCEPT ![Alloc] =
                   [AstNode("Const", "t.v:1") EXCEPT
                      !.dtypep = AstConst(form, x).dtypep,
                      !.m = [m_num |-> AstConst(form, x).num]]]
    /\ ret' = [op |-> "newConst", a |-> Alloc, b |-> form, c |-> NULL,
               val |-> FALSE]
    /\ UNCHANGED <<ents, clonep, cloneOf>>

NextConst ==
    \E form \in ConstForms : \E x \in ConstArgs(form) : ConstructConst(form, x)

SpecConst == InitConst /\ [][NextConst]_vars

\* The data type that matches a number: double for a double, string for a
\* string, otherwise logic of the number's width and signedness.
DTypeMatches(dt, num) ==
    IF isDouble(num) THEN dt = dtypeSetDouble
    ELSE IF isString(num) THEN dt = dtypeSetString
    ELSE /\ dt.k = "logic"
         /\ dt.width = num.width
         /\ dt.isSigned = num.isSigned

\* C21: every literal in the tree has a resolved data type that matches its
\* value: double for a double value, string for a string value, otherwise
\* a logic type of the number's width and the number's signedness.
C21_ConstDTypeMatchesValue ==
    \A i \in Live :
        nodes[i].type = "Const" =>
            /\ nodes[i].dtypep # NoDType
            /\ DTypeMatches(nodes[i].dtypep, nodes[i].m.m_num)

---------------------------------------------------------------------------
(* SpecLifecycle: one node built over two literals and taken through the   *)
(* passes that drive it: width resolution, constant folding, emission.     *)
(* Each node carries the stage the passes have brought it to.              *)

LifecycleStates == <<"Constructed", "TypeResolved", "FoldedOrKept", "Emitted">>
\* The position of a stage in the lifecycle.
LifeRank(s) == CHOOSE k \in 1..Len(LifecycleStates) : LifecycleStates[k] = s

\* A node together with its stage.
Staged(n, s) == [state |-> s] @@ n

InitLifecycle ==
    /\ nodes = [i \in NodeIds |->
                  IF i \in Operands
                  THEN Staged(New("Const", "t.v:1", <<NULL, NULL, NULL, NULL>>,
                                  [num |-> V3Number(1, 2 - i)]),
                              "Constructed")
                  ELSE NoNode]
    /\ ents = {1, 2}
    /\ clonep = [e \in Entities |-> NULL]
    /\ cloneOf = [i \in NodeIds |-> NULL]
    /\ ret = NoRet

\* new Ast<kind>(fl, operands..., args...): the node starts Constructed.
ConstructStaged(kind, args) ==
    /\ kind \in HookKinds
    /\ nodes' = [nodes EXCEPT
                   ![Alloc] = Staged(New(kind, "t.v:1", CtorOps(kind, args),
                                         args), "Constructed")]
    /\ ret' = [op |-> "new", a |-> Alloc, b |-> NULL, c |-> NULL,
               val |-> FALSE]
    /\ UNCHANGED <<ents, clonep, cloneOf>>

\* The width pass visits node i: a data type the constructor left
\* unresolved is set, one already set is kept.
WidthPass(i) ==
    /\ i \in Live
    /\ nodes[i].state = "Constructed"
    /\ nodes' = [nodes EXCEPT
                   ![i].dtypep = IF @ = NoDType THEN EntityDType ELSE @,
                   ![i].state = "TypeResolved"]
    /\ ret' = [op |-> "width", a |-> i, b |-> NULL, c |-> NULL,
               val |-> FALSE]
    /\ UNCHANGED <<ents, clonep, cloneOf>>

\* The literal the folding pass puts in the place of node n.
FoldedConst(n) ==
    LET out == numberOperate(n, Accumulator(n), nodes[n.op1p].m.m_num,
                             nodes[n.op2p].m.m_num)
    IN Staged([New("Const", n.fileline, <<NULL, NULL, NULL, NULL>>,
                   [num |-> out]) EXCEPT !.dtypep = n.dtypep],
              "FoldedOrKept")

\* Fault variant of the folding pass: it visits a node whatever its stage.
ConstPass_anyStage(i) ==
    /\ i \in Live
    /\ nodes[i].state \in {"Constructed", "TypeResolved"}
    /\ IF Foldable(i) /\ nodes[i].type \in ArithKinds
       THEN nodes' = [nodes EXCEPT ![i] = FoldedConst(nodes[i]),
                                   ![nodes[i].op1p] = Deleted,
                                   ![nodes[i].op2p] = Deleted]
       ELSE nodes' = [nodes EXCEPT ![i].state = "FoldedOrKept"]
    /\ ret' = [op |-> "const", a |-> i, b |-> NULL, c |-> NULL,
               val |-> nodes[i]]
    /\ UNCHANGED <<ents, clonep, cloneOf>>
\* The constant-folding pass visits node i, whose type is resolved: a
\* foldable arithmetic node over literals is replaced by a literal (the
\* operands go with it), any other node is kept.
ConstPass(i) ==
    /\ i \in Live
    /\ nodes[i].state = "TypeResolved"
    /\ IF Foldable(i) /\ nodes[i].type \in ArithKinds
       THEN nodes' = [nodes EXCEPT ![i] = FoldedConst(nodes[i]),
                                   ![nodes[i].op1p] = Deleted,
                                   ![nodes[i].op2p] = Deleted]
       ELSE nodes' = [nodes EXCEPT ![i].state = "FoldedOrKept"]
    /\ ret' = [op |-> "const", a |-> i, b |-> NULL, c |-> NULL,
               val |-> nodes[i]]
    /\ UNCHANGED <<ents, clonep, cloneOf>>

\* The back end renders node i, which the folding pass has handled.
EmitPass(i) ==
    /\ i \in Live
    /\ nodes[i].state = "FoldedOrKept"
    /\ nodes' = [nodes EXCEPT ![i].state = "Emitted"]
    /\ ret' = [op |-> "emitC", a |-> i, b |-> NULL, c |-> NULL,
               val |-> emit(nodes[i], "emitC")]
    /\ UNCHANGED <<ents, clonep, cloneOf>>

NextLifecycle ==
    \/ \E kind \in HookKinds : \E args \in CtorArgs(kind) :
         ConstructStaged(kind, args)
    \/ \E i \in NodeIds : WidthPass(i)
    \/ \E i \in NodeIds : ConstPass(i)
    \/ \E i \in NodeIds : EmitPass(i)

SpecLifecycle == InitLifecycle /\ [][NextLifecycle]_vars

\* One step of the lifecycle of node i: it stays or moves to the next
\* stage, starts Constructed, and reaches FoldedOrKept only with a resolved
\* data type.
LifecycleStep(i) ==
    /\ (i \notin Live /\ nodes'[i].type \notin {"none", "deleted"})
         => nodes'[i].state = "Constructed"
    /\ (i \in Live /\ nodes'[i].type \notin {"none", "deleted"})
         => LET a == LifeRank(nodes[i].state)
                b == LifeRank(nodes'[i].state)
            IN /\ b \in {a, a + 1}
               /\ b > a /\ b >= 3 => nodes[i].dtypep # NoDType

\* C22: every node's lifecycle only moves forward along Constructed,
\* TypeResolved, FoldedOrKept, Emitted, one stage at a time: none is folded
\* before its data type is resolved, none is emitted before the folding
\* pass has handled it, and an Emitted node stays Emitted.
C22_LifecycleForward == [][\A i \in NodeIds : LifecycleStep(i)]_vars

\* A literal the folding pass put in place of an operator has been emitted.
C22_Witness ==
    /\ ret.op = "emitC"
    /\ ret.a \notin Operands
    /\ nodes[ret.a].type = "Const"
    /\ nodes[ret.a].state = "Emitted"

---------------------------------------------------------------------------
(* SpecValid: cloneTree as the driver runs it, the copy followed by the    *)
(* relink walk over every node of the copy, and the passes that use a      *)
(* node's back-reference.  Each copy records whether cloneRelink has run   *)
(* on it; ret.c holds the nodes the walk has still to visit.               *)

\* The copies the relink walk has not visited yet, in walk order.
RelinkTodo ==
    IF ret.op \in {"cloneTree", "cloneRelink"} THEN ret.c ELSE <<>>

\* Fault variant: the driver does not wait for the walk.
Relinking_off == FALSE
\* True between the copy and the end of the relink walk.
Relinking == RelinkTodo # <<>>

\* rootp->cloneTree(false), first half: the copy of every node of the
\* subtree, not yet relinked.
CloneTreeCopy(root) ==
    /\ root \in Roots /\ root # 1
    /\ \A j \in NodeIds : cloneOf[j] = NULL
    /\ LET olds == Subtree(root)
           n == Len(olds)
       IN /\ NumAllocated + n <= MaxNodes
          /\ LET news == FreeSlots(n, Allocated)
                 Copy(k) ==
                     [relinked |-> FALSE]
                     @@ [nodes[olds[k]] EXCEPT
                           !.op1p = IF k < n THEN news[k + 1] ELSE NULL]
             IN /\ nodes' = [j \in NodeIds |->
                               IF \E k \in 1..n : news[k] = j
                               THEN Copy(CHOOSE k \in 1..n : news[k] = j)
                               ELSE nodes[j]]
                /\ cloneOf' = [j \in NodeIds |->
                                 IF \E k \in 1..n : news[k] = j
                                 THEN olds[CHOOSE k \in 1..n : news[k] = j]
                                 ELSE cloneOf[j]]
                /\ ret' = [op |-> "cloneTree", a |-> root, b |-> news[1],
                           c |-> news, val |-> FALSE]
    /\ UNCHANGED <<ents, clonep>>

\* cloneTree, second half: cloneRelink on the next copy of the walk.
RelinkStep ==
    /\ RelinkTodo # <<>>
    /\ LET i == Head(RelinkTodo)
       IN /\ nodes' = [nodes EXCEPT
                         ![i] = [cloneRelink(nodes[i]) EXCEPT
                                   !.relinked = TRUE]]
          /\ ret' = [op |-> "cloneRelink", a |-> i, b |-> Target(nodes[i]),
                     c |-> Tail(RelinkTodo), val |-> FALSE]
    /\ UNCHANGED <<ents, clonep, cloneOf>>

\* The uses a pass makes of a node that holds a back-reference.
UseOps == {"broken", "same", "foldable", "emitVerilog"}

\* The debug check between passes: nodep->broken().
UseBroken(i) == ~Relinking /\ Broken(i)

\* Common-subexpression matching: a->same(b).
UseSame(i, j) ==
    /\ ~Relinking
    /\ i \in RefNodes /\ j \in RefNodes
    /\ nodes[i].type = nodes[j].type
    /\ ret' = [op |-> "same", a |-> i, b |-> j, c |-> NULL,
               val |-> same(nodes[i], nodes[j])]
    /\ UNCHANGED <<nodes, ents, clonep, cloneOf>>

\* The folding pass asks whether node i can be folded.
UseFoldable(i) ==
    /\ ~Relinking
    /\ i \in RefNodes
    /\ ret' = [op |-> "foldable", a |-> i, b |-> NULL, c |-> NULL,
               val |-> Foldable(i)]
    /\ UNCHANGED <<nodes, ents, clonep, cloneOf>>

\* A dump renders node i.
UseEmit(i) ==
    /\ ~Relinking
    /\ i \in RefNodes
    /\ ret' = [op |-> "emitVerilog", a |-> i, b |-> NULL, c |-> NULL,
               val |-> emit(nodes[i], "emitVerilog")]
    /\ UNCHANGED <<nodes, ents, clonep, cloneOf>>

NextValid ==
    \/ RelinkStep
    \/ /\ ~Relinking
       /\ \/ \E kind \in RefKinds :
               \E args \in CtorArgs(kind) : ConstructRef(kind, args)
          \/ \E i \in NodeIds : ConstructParent(i)
          \/ \E i \in NodeIds, e \in Entities : SetVarp(i, e)
          \/ \E d \in Entities : CloneDecl(d)
          \/ \E root \in NodeIds : CloneTreeCopy(root)
    \/ \E i \in RefNodes : UseBroken(i)
    \/ \E i \in RefNodes, j \in RefNodes : UseSame(i, j)
    \/ \E i \in RefNodes : UseFoldable(i)
    \/ \E i \in RefNodes : UseEmit(i)

SpecValid == InitRelink /\ [][NextValid]_vars

\* The copies made by cloneTree.
Copies == { j \in Live : cloneOf[j] # NULL }

\* The nodes the last operation used, when it was a use by a pass.
UsedNodes ==
    IF ret.op = "same" THEN {ret.a, ret.b}
    ELSE IF ret.op \in UseOps THEN {ret.a}
    ELSE {}

\* C23: when a pass uses a node of a clone (broken, same, fold, emission),
\* cloneRelink has run on every node of that clone.
C23_NoUseBeforeRelink ==
    (UsedNodes \cap Copies # {}) => \A j \in Copies : nodes[j].relinked

\* A relinked copy of a reference whose declaration has a clone has been
\* checked by broken().
C23_Witness ==
    /\ ret.op = "broken"
    /\ ret.a \in Copies
    /\ nodes[ret.a].relinked
    /\ Target(nodes[ret.a]) # NULL
    /\ Target(nodes[ret.a]) # Target(nodes[cloneOf[ret.a]])

---------------------------------------------------------------------------
(* SpecOwn: trees grown by constructors that are handed unparented nodes,  *)
(* with the constructor forms that make operands of their own.             *)

\* The operand in slot k of node n.
Slot(n, k) ==
    CASE k = 1 -> n.op1p [] k = 2 -> n.op2p [] k = 3 -> n.op3p
      [] k = 4 -> n.op4p

\* The slots, as <<parent, slot>>, that hold node i.
Holders(i) ==
    { pk \in Live \X (1..4) : Slot(nodes[pk[1]], pk[2]) = i }
\* Nodes no parent holds: what a caller may hand to a constructor.
Unparented == { i \in Live : Holders(i) = {} }

\* One kind of each arity.
OwnKinds == {"Not", "Add", "Cond", "CountBits"}

\* new AstConst(fl, num) as the integer-argument constructors call it.
ConstOfInt(fl, x) ==
    [AstNode("Const", fl) EXCEPT
       !.dtypep = AstConst("uint32_t", x).dtypep,
       !.m = [m_num |-> AstConst("uint32_t", x).num]]

\* The value of the literal leaves (ownership does not depend on it).
LeafValues == {1}

\* The parser builds a literal leaf.
NewLeaf(v) ==
    /\ NumAllocated < MaxNodes
    /\ nodes' = [nodes EXCEPT
                   ![Alloc] = New("Const", "t.v:1", <<NULL, NULL, NULL, NULL>>,
                                  [num |-> V3Number(1, v)])]
    /\ ret' = [op |-> "new", a |-> Alloc, b |-> NULL, c |-> NULL,
               val |-> FALSE]
    /\ UNCHANGED <<ents, clonep, cloneOf>>

\* new Ast<kind>(fl, operands...) over distinct unparented nodes.
NewOver(kind, ops) ==
    /\ NumAllocated < MaxNodes
    /\ \A k \in 1..4 : FillsSlot(kind, k) <=> ops[k] # NULL
    /\ \A k \in 1..4, l \in 1..4 :
         (k # l /\ ops[k] # NULL) => ops[k] # ops[l]
    /\ nodes' = [nodes EXCEPT ![Alloc] = New(kind, "t.v:1", ops, NoArgs)]
    /\ ret' = [op |-> "new", a |-> Alloc, b |-> NULL, c |-> NULL,
               val |-> FALSE]
    /\ UNCHANGED <<ents, clonep, cloneOf>>

\* Fault variant of AstCountBits(fl, exprp, ctrl1p): the one control handed
\* to all three control slots.
AstCountBits_1_shared(exprp, ctrl1p, clone2p, clone3p) ==
    <<exprp, ctrl1p, ctrl1p, ctrl1p>>
\* AstCountBits(fl, exprp, ctrl1p): the operands handed to the base class,
\* clone2p and clone3p being the two results of ctrl1p->cloneTree(false).
AstCountBits_1(exprp, ctrl1p, clone2p, clone3p) ==
    <<exprp, ctrl1p, clone2p, clone3p>>
\* AstCountBits(fl, exprp, ctrl1p, ctrl2p), clone3p being the result of
\* ctrl2p->cloneTree(false).
AstCountBits_2(exprp, ctrl1p, ctrl2p, clone3p) ==
    <<exprp, ctrl1p, ctrl2p, clone3p>>

\* True when node i has no operands: its cloneTree is one node.
IsLeaf(i) == \A k \in 1..4 : Slot(nodes[i], k) = NULL

\* new AstCountBits(fl, exprp, ctrl1p) and new AstCountBits(fl, exprp,
\* ctrl1p, ctrl2p); ctrl2p is NULL in the first form.  The control cloned
\* is a leaf.
NewCountBits(exprp, ctrl1p, ctrl2p) ==
    LET lastp == IF ctrl2p = NULL THEN ctrl1p ELSE ctrl2p
        n == IF ctrl2p = NULL THEN 3 ELSE 2
        free == FreeSlots(n, Allocated)
        ops == IF ctrl2p = NULL
               THEN AstCountBits_1(exprp, ctrl1p, free[1], free[2])
               ELSE AstCountBits_2(exprp, ctrl1p, ctrl2p, free[1])
    IN /\ NumAllocated + n <= MaxNodes
       /\ exprp # ctrl1p /\ exprp # ctrl2p /\ ctrl1p # ctrl2p
       /\ IsLeaf(lastp)
       /\ nodes' = [j \in NodeIds |->
                      IF j = free[n] THEN New("CountBits", "t.v:1", ops, NoArgs)
                      ELSE IF \E k \in 1..n - 1 : free[k] = j THEN nodes[lastp]
                      ELSE nodes[j]]
       /\ cloneOf' = [j \in NodeIds |->
                        IF \E k \in 1..n - 1 : free[k] = j THEN lastp
                        ELSE cloneOf[j]]
       /\ ret' = [op |-> "newCountBits", a |-> free[n], b |-> NULL,
                  c |-> NULL, val |-> FALSE]
       /\ UNCHANGED <<ents, clonep>>

\* The integer-argument forms and the integers they are given: the
\* replication count, the bit, <<lsb, bitwidth>>, <<lo, elements>>.
IntForms == {"Replicate", "ReplicateN", "ArraySel", "Sel", "SliceSel"}
IntArgs(kind) ==
    CASE kind \in {"Replicate", "ReplicateN"} -> { <<2>> }
      [] kind = "ArraySel" -> { <<1>> }
      [] kind = "Sel" -> { <<0, 1>>, <<1, 2>> }
      [] kind = "SliceSel" -> { <<0, 2>> }

\* The data type the integer-argument form of a kind leaves.
IntFormDType(kind, fromp, x) ==
    CASE kind = "Replicate" ->
            dtypeSetLogicSized(mulU32(width(nodes[fromp]), x[1]), FALSE)
      [] kind = "ReplicateN" -> dtypeSetString
      [] kind = "Sel" -> dtypeSetLogicSized(x[2], FALSE)
      [] OTHER -> NoDType

\* new AstReplicate(fl, lhsp, repCount), new AstReplicateN(fl, lhsp,
\* repCount), new AstArraySel(fl, fromp, bit), new AstSel(fl, fromp, lsb,
\* bitwidth), new AstSliceSel(fl, fromp, declRange): each integer becomes a
\* new AstConst.
NewIntForm(kind, fromp, x) ==
    LET n == Len(x) + 1
        free == FreeSlots(n, Allocated)
        ops == <<fromp, free[1], IF n > 2 THEN free[2] ELSE NULL, NULL>>
    IN /\ NumAllocated + n <= MaxNodes
       /\ nodes' = [j \in NodeIds |->
                      IF j = free[n]
                      THEN [New(kind, "t.v:1", ops, NoArgs) EXCEPT
                              !.dtypep = IntFormDType(kind, fromp, x)]
                      ELSE IF \E k \in 1..n - 1 : free[k] = j
                      THEN ConstOfInt("t.v:1",
                                      x[CHOOSE k \in 1..n - 1 : free[k] = j])
                      ELSE nodes[j]]
       /\ ret' = [op |-> "newIntForm", a |-> free[n], b |-> NULL,
                  c |-> NULL, val |-> FALSE]
       /\ UNCHANGED <<ents, clonep, cloneOf>>

InitOwn == InitConst

NextOwn ==
    \/ \E v \in LeafValues : NewLeaf(v)
    \/ \E kind \in OwnKinds :
         \E ops \in [1..4 -> Unparented \cup {NULL}] : NewOver(kind, ops)
    \/ \E exprp \in Unparented, ctrl1p \in Unparented :
         \E ctrl2p \in Unparented \cup {NULL} :
           NewCountBits(exprp, ctrl1p, ctrl2p)
    \/ \E kind \in IntForms, fromp \in Unparented :
         \E x \in IntArgs(kind) : NewIntForm(kind, fromp, x)

SpecOwn == InitOwn /\ [][NextOwn]_vars

\* C24: every node is held by at most one operand slot of one parent.
C24_SingleOwner == \A i \in Live : Cardinality(Holders(i)) <= 1

\* A CountBits built from one control holds the control and two clones of
\* it in its three control slots.
C24_Witness ==
    /\ ret.op = "newCountBits"
    /\ LET n == nodes[ret.a]
       IN /\ cloneOf[n.op3p] = n.op2p
          /\ cloneOf[n.op4p] = n.op2p

---------------------------------------------------------------------------
(* SpecClean: an inner node of any kind over the literal leaves, an outer  *)
(* operator that takes it as one operand, and the back end rendering the   *)
(* outer node in the host grammar.                                         *)

\* The clean-required query of operand slot k.
CleanQuery(k) ==
    CASE k = 1 -> "cleanLhs" [] k = 2 -> "cleanRhs" [] k = 3 -> "cleanThs"
      [] k = 4 -> "cleanFhs"

\* The kinds of the outer node: those that declare operand-slot facts.
OuterKinds ==
    NodeUniopKinds \cup NodeBiopKinds \cup NodeTriopKinds
        \cup NodeQuadopKinds

\* The inner node, once built, and the outer node over it.
Inner == { i \in Built : \A j \in Live, k \in 1..4 : Slot(nodes[j], k) # i }
Outer == { j \in Live : \E k \in 1..4 : Slot(nodes[j], k) \in Built }

\* new Ast<kind>(fl, ...) with the inner node in slot s and the literal
\* leaves in the other slots.
ConstructOuter(kind, s, args) ==
    /\ Outer = {} /\ Inner # {}
    /\ NumAllocated < MaxNodes
    /\ FillsSlot(kind, s)
    /\ LET inner == CHOOSE i \in Inner : TRUE
           ops == [k \in 1..4 |-> IF k = s THEN inner ELSE CtorOps(kind, args)[k]]
       IN nodes' = [nodes EXCEPT ![Alloc] = New(kind, "t.v:1", ops, args)]
    /\ ret' = [op |-> "new", a |-> Alloc, b |-> NULL, c |-> NULL,
               val |-> FALSE]
    /\ UNCHANGED <<ents, clonep, cloneOf>>

\* Fault variant of the back end: only the first operand is looked at.
NeedsMask_lhsOnly(n, k) ==
    /\ k = 1
    /\ slotFact(n, CleanQuery(k)).value
    /\ ~cleanOut(nodes[Slot(n, k)]).value
\* The back end masks the operand in slot k of n when n requires it clean
\* and the operand does not declare its output clean.
NeedsMask(n, k) ==
    /\ slotFact(n, CleanQuery(k)).value
    /\ ~cleanOut(nodes[Slot(n, k)]).value

\* The host-grammar text of node n: the template of n and, per operand
\* slot, whether the operand text is wrapped in a mask.  Nothing is
\* rendered when the renderer of n or a cleanOut() the back end has to ask
\* is the fatal stub.
RenderC(n) ==
    LET filled == { k \in 1..4 : Slot(n, k) # NULL }
    IN IF \/ emit(n, "emitC").fatal
          \/ \E k \in filled :
               /\ slotFact(n, CleanQuery(k)).value
               /\ cleanOut(nodes[Slot(n, k)]).fatal
       THEN [fatal |-> TRUE, text |-> "", operands |-> <<>>]
       ELSE [fatal |-> FALSE, text |-> emit(n, "emitC").text,
             operands |-> [k \in 1..4 |->
                             IF k \notin filled THEN "none"
                             ELSE IF NeedsMask(n, k) THEN "masked"
                             ELSE "plain"]]

\* The back end renders the outer node.
EmitClean(i) ==
    /\ i \in Outer
    /\ ret' = [op |-> "emitClean", a |-> i, b |-> NULL, c |-> NULL,
               val |-> RenderC(nodes[i])]
    /\ UNCHANGED <<nodes, ents, clonep, cloneOf>>

NextClean ==
    \/ \E kind \in HookKinds : \E args \in CtorArgs(kind) :
         Construct(kind, "t.v:1", args)
    \/ /\ Outer = {} /\ Inner # {}
       /\ \E kind \in OuterKinds, s \in 1..4 : \E args \in CtorArgs(kind) :
            ConstructOuter(kind, s, args)
    \/ \E i \in Outer : EmitClean(i)

SpecClean == Init /\ [][NextClean]_vars

\* True when node c declares cleanOut() == false.
DeclaresNotClean(c) ==
    /\ c.type \notin CleanOutNAKinds
    /\ IF c.type = "CMath" THEN ~c.m.m_cleanOut
       ELSE c.type \notin CleanOutTrueKinds

\* C25: in the host-grammar text of a node, every operand that declares
\* cleanOut() == false and sits in a slot the node declares clean-required
\* is wrapped in a mask.
C25_NotCleanOperandMasked ==
    (ret.op = "emitClean" /\ ~ret.val.fatal) =>
        \A k \in 1..4 :
            LET n == nodes[ret.a]
            IN (/\ Slot(n, k) # NULL
                /\ slotFact(n, CleanQuery(k)).value
                /\ DeclaresNotClean(nodes[Slot(n, k)]))
                 => ret.val.operands[k] = "masked"

\* An outer node that requires its second operand clean has been rendered
\* over an inner node that does not declare its output clean.
C25_Witness ==
    /\ ret.op = "emitClean" /\ ~ret.val.fatal
    /\ ret.val.operands[2] = "masked"
    /\ Slot(nodes[ret.a], 2) \in Built

---------------------------------------------------------------------------
(* SpecPayload: up to three nodes of one kind that overrides same, their   *)
(* setters, and same between any two of them.                              *)

\* The kinds whose same compares a payload.
PayloadKinds ==
    { "Const", "CCast", "FScanF", "SScanF", "LogOr", "ScopeName",
      "EnumItemRef", "VarXRef" }

\* The nodes compared with one another.
PayloadArity == SameArity + 1

\* The kinds the next node may have: the first fixes the kind of the rest.
PayloadBuildable ==
    IF Cardinality(Built) >= PayloadArity \/ NumAllocated >= MaxNodes THEN {}
    ELSE IF Built = {} THEN PayloadKinds
    ELSE { nodes[i].type : i \in Built }

\* new Ast<kind>(fl, operands..., args...).
ConstructPayload(kind, args) ==
    /\ kind \in PayloadBuildable
    /\ nodes' = [nodes EXCEPT
                   ![Alloc] = New(kind, "t.v:1", CtorOps(kind, args), args)]
    /\ ret' = [op |-> "new", a |-> Alloc, b |-> NULL, c |-> NULL,
               val |-> FALSE]
    /\ UNCHANGED <<ents, clonep, cloneOf>>

\* AstNodeVarRef::selfPointer(const string& value).
selfPointer(i, value) ==
    /\ i \in Live
    /\ nodes[i].type \in NodeVarRefKinds
    /\ nodes[i].m.m_selfPointer # value
    /\ nodes' = [nodes EXCEPT ![i].m.m_selfPointer = value]
    /\ ret' = [op |-> "selfPointer", a |-> i, b |-> NULL, c |-> NULL,
               val |-> FALSE]
    /\ UNCHANGED <<ents, clonep, cloneOf>>

NextPayload ==
    \/ \E kind \in PayloadBuildable : \E args \in CtorArgs(kind) :
         ConstructPayload(kind, args)
    \/ \E i \in Built : sideEffect(i, TRUE)
    \/ \E i \in Built : dpiExport(i, TRUE)
    \/ \E i \in Built : selfPointer(i, "this")
    \/ \E i \in Built, j \in Built : Same(i, j)

SpecPayload == Init /\ [][NextPayload]_vars

\* The bits of a number: what a literal comparison of two values looks at.
ValueBits(num) == <<num.k, num.width, num.value, num.valueX, num.str>>

\* Equality of the payload same is said to compare, per kind.
PayloadEqual(a, b) ==
    CASE a.type = "Const" -> ValueBits(a.m.m_num) = ValueBits(b.m.m_num)
      [] a.type = "CCast" -> a.m.m_size = b.m.m_size
      [] a.type \in ScanFKinds -> a.m.m_text = b.m.m_text
      [] a.type = "LogOr" -> a.m.m_sideEffect = b.m.m_sideEffect
      [] a.type = "ScopeName" ->
            <<a.m.m_dpiExport, a.m.m_forFormat>>
              = <<b.m.m_dpiExport, b.m.m_forFormat>>
      [] a.type = "EnumItemRef" -> a.m.m_itemp = b.m.m_itemp
      [] a.type = "VarXRef" ->
            <<a.m.m_selfPointer, a.m.m_varp, a.m.m_name, a.m.m_dotted>>
              = <<b.m.m_selfPointer, b.m.m_varp, b.m.m_name, b.m.m_dotted>>

\* C26: on the kinds that override same, same(a, b) is true exactly when
\* the compared payload is equal, and same is symmetric and transitive.
C26_SameIffPayloadEqual ==
    /\ (ret.op = "same" /\ nodes[ret.a].type \in PayloadKinds)
         => ret.val = PayloadEqual(nodes[ret.a], nodes[ret.b])
    /\ \A i \in Built, j \in Built :
         (nodes[i].type \in PayloadKinds /\ nodes[j].type = nodes[i].type)
           => /\ same(nodes[i], nodes[j]) = same(nodes[j], nodes[i])
              /\ \A k \in Built :
                   ( /\ nodes[k].type = nodes[i].type
                     /\ same(nodes[i], nodes[j])
                     /\ same(nodes[j], nodes[k]) )
                   => same(nodes[i], nodes[k])

\* Three cross-scope references exist and same has told two of them apart
\* that differ in the dotted path only.
C26_Witness ==
    /\ Cardinality(Built) = PayloadArity
    /\ ret.op = "same" /\ ret.val = FALSE
    /\ nodes[ret.a].type = "VarXRef"
    /\ nodes[ret.a].m.m_dotted # nodes[ret.b].m.m_dotted
    /\ [nodes[ret.a].m EXCEPT !.m_dotted = ""]
         = [nodes[ret.b].m EXCEPT !.m_dotted = ""]

---------------------------------------------------------------------------
(* SpecPure: construction, the sideEffect setter, cloneType and the purity *)
(* query on hand-built nodes and on the nodes cloneType made.              *)

\* n->isPure() on any node above the leaves, cloneType results included.
QueryPure(i) ==
    /\ i \in Live \ Operands
    /\ ret' = [op |-> "isPure", a |-> i, b |-> NULL, c |-> NULL,
               val |-> isPure(nodes[i])]
    /\ UNCHANGED <<nodes, ents, clonep, cloneOf>>

NextPure ==
    \/ \E kind \in BuildableKinds, fl \in FileLines :
         \E args \in CtorArgs(kind) : Construct(kind, fl, args)
    \/ \E i \in NodeIds, flag \in BOOLEAN : sideEffect(i, flag)
    \/ \E i \in NodeIds, l \in Operands :
         \E r \in Operands \ {l} : CloneType(i, l, r)
    \/ \E i \in NodeIds : QueryPure(i)

SpecPure == Init /\ [][NextPure]_vars

\* One step as LogOr node i sees it.
LogOrStep(i) ==
    nodes'[i].type = "LogOr" =>
        /\ (ret'.op = "isPure" /\ ret'.a = i)
             => (ret'.val <=> ~nodes'[i].m.m_sideEffect)
        /\ nodes[i].type # "LogOr" => ~nodes'[i].m.m_sideEffect
        /\ ( /\ nodes[i].type = "LogOr"
             /\ nodes'[i].m.m_sideEffect # nodes[i].m.m_sideEffect )
             => /\ ret'.op = "sideEffect" /\ ret'.a = i
                /\ nodes'[i].m.m_sideEffect = ret'.val

\* C27: a LogOr node reports isPure() true exactly when its side-effect flag
\* is false; the flag is false when the node is constructed or made by
\* cloneType, and changes only through sideEffect(flag).
C27_LogOrPurityFollowsFlag == [][\A i \in NodeIds : LogOrStep(i)]_vars

\* cloneType on a LogOr whose flag is set has made a LogOr whose flag is
\* clear, and the two answer isPure() differently.
C27_Witness ==
    /\ ret.op = "isPure" /\ ret.val
    /\ cloneOf[ret.a] # NULL
    /\ nodes[ret.a].type = "LogOr"
    /\ nodes[cloneOf[ret.a]].m.m_sideEffect

---------------------------------------------------------------------------
(* SpecRand: $random / $urandom nodes from both constructors, and the      *)
(* merging pass asking whether two of them can be combined.                *)

\* AstRand::seedp().
seedp(n) == n.op1p

\* Fault variant of AstRand::combinable: the seed operands not looked at.
combinable_noSeed(a, b) ==
    /\ a.m.m_reset = b.m.m_reset
    /\ a.m.m_urandom = b.m.m_urandom
\* AstRand::combinable(samep).
combinable(a, b) ==
    /\ seedp(a) = NULL /\ seedp(b) = NULL
    /\ a.m.m_reset = b.m.m_reset
    /\ a.m.m_urandom = b.m.m_urandom

\* new AstRand(fl, Reset{}, dtp, reset) and new AstRand(fl, seedp, urandom).
ConstructRand(args) ==
    /\ NumAllocated < MaxNodes
    /\ nodes' = [nodes EXCEPT
                   ![Alloc] = New("Rand", "t.v:1", CtorOps("Rand", args), args)]
    /\ ret' = [op |-> "new", a |-> Alloc, b |-> NULL, c |-> NULL,
               val |-> FALSE]
    /\ UNCHANGED <<ents, clonep, cloneOf>>

\* a->combinable(b).
Combinable(i, j) ==
    /\ i \in Built /\ j \in Built
    /\ ret' = [op |-> "combinable", a |-> i, b |-> j, c |-> NULL,
               val |-> combinable(nodes[i], nodes[j])]
    /\ UNCHANGED <<nodes, ents, clonep, cloneOf>>

NextRand ==
    \/ \E args \in CtorArgs("Rand") : ConstructRand(args)
    \/ \E i \in NodeIds, j \in NodeIds : Combinable(i, j)

SpecRand == Init /\ [][NextRand]_vars

\* True when Rand node i was built with a seed operand.
Seeded(i) == nodes[i].op1p # NULL

\* C28: a.combinable(b) equals b.combinable(a); it is true only when
\* neither node has a seed operand and the two agree on reset and on
\* urandom, so a seeded Rand is combinable with no node, itself included.
C28_CombinableSymmetric ==
    ret.op = "combinable" =>
        /\ ret.val = combinable(nodes[ret.b], nodes[ret.a])
        /\ ret.val =>
             /\ ~Seeded(ret.a) /\ ~Seeded(ret.b)
             /\ nodes[ret.a].m.m_reset = nodes[ret.b].m.m_reset
             /\ nodes[ret.a].m.m_urandom = nodes[ret.b].m.m_urandom
        /\ (Seeded(ret.a) \/ Seeded(ret.b)) => ~ret.val

\* A seeded Rand has been asked whether it can be combined with itself.
C28_Witness ==
    /\ ret.op = "combinable"
    /\ ret.a = ret.b
    /\ Seeded(ret.a)
    /\ ~ret.val

---------------------------------------------------------------------------
(* SpecSel: a Sel over constant lsb and width, the fold of it and the      *)
(* msbConst() accessor, over 32-bit host words.                            *)

\* The indices and widths tried: 0, 1, 2, 2^31 - 1, 2^31, 2^32 - 2, 2^32 - 1.
SelWords ==
    { Zero, One, Word(0, 2), Word(Half \div 2 - 1, Half - 1),
      Word(Half \div 2, 0), Word(Half - 1, Half - 2), Word(Half - 1, Half - 1) }

\* What an int expression with signed overflow may yield: anything.
UndefinedInt == SelWords
\* int a + b and a - b: the exact result when it fits an int, undefined
\* otherwise.
IntAdd(a, b) ==
    IF isNeg(a) = isNeg(b) /\ isNeg(addU(a, b)) # isNeg(a)
    THEN { [ub |-> TRUE, val |-> v] : v \in UndefinedInt }
    ELSE { [ub |-> FALSE, val |-> addU(a, b)] }
IntSub(a, b) ==
    IF isNeg(a) # isNeg(b) /\ isNeg(subU(a, b)) # isNeg(a)
    THEN { [ub |-> TRUE, val |-> v] : v \in UndefinedInt }
    ELSE { [ub |-> FALSE, val |-> subU(a, b)] }

\* V3Number(nodep, 32, value) for a full host word.
V3NumberU32(word) ==
    [k |-> "logic", width |-> 32, value |-> word, valueX |-> 0, str |-> "",
     sized |-> TRUE, isSigned |-> FALSE]
\* V3Number::toSInt of an unsigned 32-bit number: the same word read as int.
toSInt(num) == num.value

\* V3Number::opSel(from, msb, lsb): out becomes bits [msb : lsb] of from.
opSel(from, msb, lsb) == [k |-> "sel", from |-> from, msb |-> msb, lsb |-> lsb]

\* AstSel::numberOperate(out, from, bit, width).
AstSel_numberOperate(from, bit, widthn) ==
    opSel(from, subU(addU(toUInt(bit), toUInt(widthn)), One), toUInt(bit))

\* AstSel::widthConst(), lsbConst().
widthConst(n) == toSInt(nodes[n.op3p].m.m_num)
lsbConst(n) == toSInt(nodes[n.op2p].m.m_num)
\* AstSel::msbConst(): lsbConst() + widthConst() - 1 in int, left to right.
msbConst(n) ==
    UNION { { [ub |-> s.ub \/ m.ub, val |-> m.val] : m \in IntSub(s.val, One) } :
            s \in IntAdd(lsbConst(n), widthConst(n)) }

\* new AstSel(fl, fromp, lsbp, widthp) over three literals.
InitSel ==
    \E lsb \in SelWords, wid \in SelWords :
        /\ nodes = [i \in NodeIds |->
                      IF i = 1
                      THEN New("Const", "t.v:1", <<NULL, NULL, NULL, NULL>>,
                               [num |-> V3NumberU32(Word(Half - 1, Half - 1))])
                      ELSE IF i \in {2, 3}
                      THEN New("Const", "t.v:1", <<NULL, NULL, NULL, NULL>>,
                               [num |-> V3NumberU32(IF i = 2 THEN lsb
                                                    ELSE wid)])
                      ELSE NoNode]
        /\ ents = {}
        /\ clonep = [e \in Entities |-> NULL]
        /\ cloneOf = [i \in NodeIds |-> NULL]
        /\ ret = NoRet

ConstructSel ==
    /\ nodes[4] = NoNode
    /\ nodes' = [nodes EXCEPT
                   ![4] = New("Sel", "t.v:1", <<1, 2, 3, NULL>>, NoArgs)]
    /\ ret' = [op |-> "new", a |-> 4, b |-> NULL, c |-> NULL, val |-> FALSE]
    /\ UNCHANGED <<ents, clonep, cloneOf>>

\* The folding pass calls numberOperate on Sel node i.
FoldSel(i) ==
    /\ i \in Live /\ nodes[i].type = "Sel"
    /\ ret' = [op |-> "numberOperate", a |-> i, b |-> NULL, c |-> NULL,
               val |-> AstSel_numberOperate(nodes[nodes[i].op1p].m.m_num,
                                            nodes[nodes[i].op2p].m.m_num,
                                            nodes[nodes[i].op3p].m.m_num)]
    /\ UNCHANGED <<nodes, ents, clonep, cloneOf>>

\* A pass calls msbConst() on Sel node i.
MsbConst(i) ==
    /\ i \in Live /\ nodes[i].type = "Sel"
    /\ \E m \in msbConst(nodes[i]) :
         ret' = [op |-> "msbConst", a |-> i, b |-> NULL, c |-> NULL, val |-> m]
    /\ UNCHANGED <<nodes, ents, clonep, cloneOf>>

NextSel ==
    \/ ConstructSel
    \/ \E i \in NodeIds : FoldSel(i)
    \/ \E i \in NodeIds : MsbConst(i)

SpecSel == InitSel /\ [][NextSel]_vars

\* The lsb and width of Sel node i as 32-bit unsigned values, and the
\* condition width >= 1 and lsb + width <= 2^32.
SelLsb(i) == toUInt(nodes[nodes[i].op2p].m.m_num)
SelWidth(i) == toUInt(nodes[nodes[i].op3p].m.m_num)
SelInRange(i) ==
    /\ SelWidth(i) # Zero
    /\ LET s == addCarry(SelLsb(i), SelWidth(i))
       IN s.carry = 0 \/ s.word = Zero

\* The fold selects bits [lsb + width - 1 : lsb]: the msb handed to opSel
\* is lsb + (width - 1) with no carry, and is at least lsb.
SelFoldExact ==
    (ret.op = "numberOperate" /\ SelInRange(ret.a)) =>
        LET e == addCarry(SelLsb(ret.a), subU(SelWidth(ret.a), One))
        IN /\ e.carry = 0
           /\ ret.val.msb = e.word
           /\ ret.val.lsb = SelLsb(ret.a)
           /\ leqU(ret.val.lsb, ret.val.msb)

\* msbConst() is defined and msbConst() - lsbConst() + 1 == widthConst().
SelMsbConstExact ==
    (ret.op = "msbConst" /\ SelInRange(ret.a)) =>
        /\ ~ret.val.ub
        /\ addU(subU(ret.val.val, lsbConst(nodes[ret.a])), One)
             = widthConst(nodes[ret.a])

\* C29: for every lsb and every width >= 1 with lsb + width <= 2^32, the
\* fold of Sel extracts bits [lsb + width - 1 : lsb], the msb index computed
\* in 32-bit unsigned arithmetic being lsb + width - 1 and at least lsb, and
\* msbConst() - lsbConst() + 1 == widthConst().
C29_SelFoldsExactRange == SelFoldExact /\ SelMsbConstExact

---------------------------------------------------------------------------
(* SpecDecl: concatenations and replications as the parser builds them,    *)
(* bottom-up over literals and one operand that has no data type yet.      *)

\* The leaves: a 1-bit and a 2-bit literal, the 32-bit counts 2 and 2^30,
\* and a $random call, which is no literal and has no data type.
DeclLeaves ==
    { New("Const", "t.v:1", <<NULL, NULL, NULL, NULL>>, [num |-> V3Number(w, 1)]) :
        w \in 1..2 }
    \cup { New("Const", "t.v:1", <<NULL, NULL, NULL, NULL>>,
               [num |-> V3NumberWord(32, c)]) : c \in {2, 1073741824} }
    \cup { New("Rand", "t.v:1", <<NULL, NULL, NULL, NULL>>,
               [reset |-> FALSE, resetv |-> FALSE, seeded |-> FALSE,
                urandom |-> FALSE]) }

\* The parser makes a leaf while the operator to come lacks an operand.
NewDeclLeaf(n) ==
    /\ NumAllocated < MaxNodes
    /\ Cardinality(Unparented) < 2
    /\ nodes' = [nodes EXCEPT ![Alloc] = n]
    /\ ret' = [op |-> "new", a |-> Alloc, b |-> NULL, c |-> NULL,
               val |-> FALSE]
    /\ UNCHANGED <<ents, clonep, cloneOf>>

\* new AstConcat(fl, lhsp, rhsp) and new AstReplicate(fl, lhsp, rhsp) over
\* two nodes that have no parent yet.
ConstructDecl(kind, lhsp, rhsp) ==
    /\ NumAllocated < MaxNodes
    /\ lhsp \in Unparented /\ rhsp \in Unparented /\ lhsp # rhsp
    /\ nodes' = [nodes EXCEPT
                   ![Alloc] = New(kind, "t.v:1", <<lhsp, rhsp, NULL, NULL>>,
                                  NoArgs)]
    /\ ret' = [op |-> "newDecl", a |-> Alloc, b |-> NULL, c |-> NULL,
               val |-> FALSE]
    /\ UNCHANGED <<ents, clonep, cloneOf>>

NextDecl ==
    \/ \E n \in DeclLeaves : NewDeclLeaf(n)
    \/ \E kind \in {"Concat", "Replicate"}, lhsp \in NodeIds, rhsp \in NodeIds :
         ConstructDecl(kind, lhsp, rhsp)

SpecDecl == InitConst /\ [][NextDecl]_vars

\* True when p is the product of the ints a and b (b >= 0), the product
\* being an int.
IsProduct(p, a, b) ==
    IF a = 0 \/ b = 0 THEN p = 0
    ELSE IF b = 1 THEN p = a
    ELSE /\ a > -INT_MAX
         /\ b <= INT_MAX \div (IF a < 0 THEN -a ELSE a)
         /\ p = a * b

\* The declared width of Concat or Replicate node n is as stated.
DeclWidthStated(n) ==
    LET lhs == nodes[n.op1p]
        rhs == nodes[n.op2p]
    IN IF n.type = "Concat"
       THEN IF lhs.dtypep # NoDType /\ rhs.dtypep # NoDType
            THEN /\ n.dtypep.k = "logic" /\ ~n.dtypep.isSigned
                 /\ n.dtypep.width = lhs.dtypep.width + rhs.dtypep.width
            ELSE n.dtypep = NoDType
       ELSE IF rhs.type = "Const"
            THEN /\ n.dtypep.k = "logic" /\ ~n.dtypep.isSigned
                 /\ IsProduct(n.dtypep.width, width(lhs), toUInt(rhs.m.m_num))
            ELSE n.dtypep = NoDType

\* C30: at construction a Concat is declared unsigned with the sum of the
\* widths of its operands when both have a data type, and is left
\* unresolved otherwise; a Replicate is declared unsigned with the source
\* width times the count when the count is a literal, and is left
\* unresolved when it is not.
C30_DeclaredWidthAtConstruction ==
    \A i \in Live :
        nodes[i].type \in {"Concat", "Replicate"} => DeclWidthStated(nodes[i])
=============================================================================
